---- MODULE Spec2Model ----
(***************************************************************************)
(* A state-machine model of the UI components of the repository:           *)
(*   FocusTrap   (src/unnamed/part_001)   focus containment by bumpers     *)
(*   Modal       (src/unnamed/part_009)   dialog lifecycle controller      *)
(*   SlideShow   (src/SlideShow/index.js) carousel                         *)
(* The DOM is modelled as far as the code reads and writes it: the child   *)
(* lists of the containers, the attributes the code tests, the focused     *)
(* element, the body's inline style, pending timers and queued events.     *)
(***************************************************************************)
EXTENDS Integers, Sequences, FiniteSets, TLC

VARIABLES
    kids,       \* container id -> sequence of child nodes, in document order
    focus,      \* id of document.activeElement (BodyId: nothing focused)
    topLayer,   \* the dialogs with the open attribute, in the order shown
    dataLocked, \* dialog id -> its data-locked attribute as isLocked reads it:
                \* "true", or "false" (which stands for an absent attribute too)
    keydown,    \* dialog id -> whether dialog._preventEscape listens for keydown
    previouslyFocused, \* dialog id -> the element that had the focus when the
                \* dialog was shown and gets it back on close (BodyId: none)
    body,       \* document.body.style: overflowY and paddingInlineEnd
    tasks,      \* task -> how many of it are pending (queued events, timers)
    effects,    \* what the latest handler did, in the order it did it
    slides,     \* the <li> children of the stage of the slide show, in order
    dots,       \* the buttons of the picker of the slide show, in order
    arrows,     \* the disabled attribute of the prev and the next button
    emitted,    \* the SlideShow:change events the latest handler dispatched
    tabs,       \* the buttons of the tablist of the tabbed modal, in order
    panels,     \* tab panel id -> whether it is in the document and has d-none
    show,       \* the SlideShow instance: its settings, what init built
    variant,    \* which AlertBanners class the page loads
    containers, \* banner location -> the banners in its container, in order
    timers,     \* the pending setTimeout callbacks, in the order scheduled
    notices,    \* the AlertBanners events the latest handler dispatched
    form1,  \* the entries of the first FormData, in the order appended
    form2,  \* the entries of the second FormData, in the order appended
    matches,    \* what the latest call of formDataMatches returned
    elements,   \* the elements that carry or carried the id of the dialog, in creation order
    modals,     \* the Modal instances constructed, in order: their fields
    heard,      \* what the latest step dispatched and called, in order
    last        \* the call that produced this state, with what it saw before

vars == <<kids, focus, topLayer, dataLocked, keydown, previouslyFocused, body, tasks, effects,
          slides, dots, arrows, emitted, tabs, panels, show,
          variant, containers, timers, notices, form1, form2, matches, elements, modals, heard, last>>
ftVars == <<kids, focus>>
modalVars == <<topLayer, dataLocked, keydown, previouslyFocused, body, tasks,
               effects>>
ssVars == <<slides, dots, arrows, emitted>>
tabVars == <<tabs, panels>>
showVars == <<show>>
bannerVars == <<variant, containers, timers, notices>>
formVars == <<form1, form2, matches>>
constructVars == <<elements, modals, heard>>
\* what the actions of one component leave alone
notFtVars == <<modalVars, ssVars, tabVars, showVars, bannerVars, formVars, constructVars>>
notModalVars == <<ssVars, tabVars, showVars, bannerVars, formVars, constructVars>>
notSsVars == <<ftVars, modalVars, tabVars, showVars, bannerVars, formVars, constructVars>>
notTabVars == <<ftVars, modalVars, ssVars, showVars, bannerVars, formVars, constructVars>>

(***************************************************************************)
(* Bounds of the model                                                     *)
(***************************************************************************)
\* most children the page gives the container under test
MaxKids == 2
\* the page and the user act while fewer tasks than this (queued close events
\* and pending timers) are pending
MaxTasks == 1
\* most slides on the stage
MaxSlides == 3
\* the tab panels of the page, and so the most tabs of the tablist
MaxTabs == 2
\* most timers pending at a time
MaxTimers == 2
\* most banners in the two containers together
MaxBanners == 2
\* most entries of a FormData
MaxEntries == 2

(***************************************************************************)
(* DOM nodes                                                               *)
(***************************************************************************)
NoSub == "none"
BodyId == <<"body", 0>>
StartBumperKey == -1
EndBumperKey == -2

\* An element of the page. tabindexAttr is the content attribute ("none" when
\* absent), sub names the container this element is when it is one.
Element(c, k, tag, tabindexAttr, visible, hidden, disabled) ==
    [id |-> <<c, k>>, tag |-> tag, tabindexAttr |-> tabindexAttr,
     visible |-> visible, hidden |-> hidden, disabled |-> disabled,
     ariaControls |-> NoSub, dataBumper |-> "none", listeners |-> <<>>,
     sub |-> NoSub]

\* The tags of the selector in getFocusableElements that the palette uses.
SelectorTags == {"button", "input"}

\* HTMLElement.tabIndex: the attribute when present, else the tag's default.
tabIndex(t) ==
    CASE t.tabindexAttr = "0" -> 0
      [] t.tabindexAttr = "-1" -> -1
      [] OTHER -> IF t.tag \in SelectorTags THEN 0 ELSE -1

RECURSIVE DescFrom(_, _, _)
DescFrom(K, c, i) ==
    IF i > Len(K[c]) THEN <<>>
    ELSE LET n == K[c][i]
         IN  <<n>> \o (IF n.sub # NoSub THEN DescFrom(K, n.sub, 1) ELSE <<>>)
                  \o DescFrom(K, c, i + 1)

\* container.querySelectorAll("*"): the descendants in document order
Descendants(K, c) == DescFrom(K, c, 1)

\* the containers that lie in the subtree of c, c included
Subtree(K, c) ==
    LET D == Descendants(K, c)
    IN  ({c} \cup {D[i].sub : i \in 1..Len(D)}) \ {NoSub}

isBumperElement(n) == n.tag = "focus-bumper"

\* container.querySelectorAll(`focus-bumper`)
queryBumpers(K, c) == SelectSeq(Descendants(K, c), isBumperElement)

(***************************************************************************)
(* FocusTrap                                                               *)
(***************************************************************************)
canBeFocused(t) ==
    LET hasTabIndex == tabIndex(t) > -1
        isVisible == t.visible
        isNotHidden == ~t.hidden
        isNotDisabled == ~t.disabled
        isNotABumper == ~(t.dataBumper # "none")
    IN  hasTabIndex /\ isVisible /\ isNotHidden /\ isNotDisabled /\ isNotABumper

\* the selector list of getFocusableElements, on the tags of the model
matchesFocusableSelector(t) ==
    \/ t.tag \in SelectorTags
    \/ (t.tabindexAttr # "none" /\ t.tabindexAttr # "-1")

getFocusableElements(K, c) ==
    SelectSeq(SelectSeq(Descendants(K, c), matchesFocusableSelector), canBeFocused)

\* Array.prototype.find / reverse().find over the filtered list; <<>> stands
\* for undefined, <<n>> for the element found.
getFirstFocusableElement(K, c) ==
    LET f == SelectSeq(getFocusableElements(K, c), LAMBDA e : tabIndex(e) > -1)
    IN  IF Len(f) = 0 THEN <<>> ELSE <<f[1]>>

getLastFocusableElement(K, c) ==
    LET f == SelectSeq(getFocusableElements(K, c), LAMBDA e : tabIndex(e) > -1)
    IN  IF Len(f) = 0 THEN <<>> ELSE <<f[Len(f)]>>

\* optional?.focus()
focusOpt(w, opt) == IF Len(opt) = 0 THEN w ELSE [w EXCEPT !.focus = opt[1].id]

newBumper(c, which) ==
    [id |-> <<c, IF which = "start" THEN StartBumperKey ELSE EndBumperKey>>,
     tag |-> "focus-bumper", tabindexAttr |-> "0",
     visible |-> TRUE, hidden |-> FALSE, disabled |-> FALSE,
     ariaControls |-> NoSub, dataBumper |-> which, listeners |-> <<>>,
     sub |-> NoSub]

addListener(c, n) ==
    IF isBumperElement(n) THEN [n EXCEPT !.listeners = Append(@, c)] ELSE n

addEventListenerToBumpers(K, c) ==
    LET S == Subtree(K, c)
    IN
    [x \in DOMAIN K |->
        IF x \in S
        THEN [i \in 1..Len(K[x]) |-> addListener(c, K[x][i])]
        ELSE K[x]]

buildFocusBumperElements_NoGuard(K, c) ==
    addEventListenerToBumpers(
        [K EXCEPT ![c] = <<newBumper(c, "start")>> \o @ \o <<newBumper(c, "end")>>],
        c)

buildFocusBumperElements(K, c) ==
    IF Len(queryBumpers(K, c)) # 0 THEN K
    ELSE addEventListenerToBumpers(
            [K EXCEPT ![c] = <<newBumper(c, "start")>> \o @
                                 \o <<newBumper(c, "end")>>],
            c)

focusTrapHandler_Swapped(w, target, container) ==
    LET w1 == IF target.tag = "focus-bumper" /\ target.dataBumper = "start"
              THEN focusOpt(w, getFirstFocusableElement(w.kids, container))
              ELSE w
    IN  IF target.tag = "focus-bumper" /\ target.dataBumper = "end"
        THEN focusOpt(w1, getLastFocusableElement(w1.kids, container))
        ELSE w1

focusTrapHandler(w, target, container) ==
    LET w1 == IF target.tag = "focus-bumper" /\ target.dataBumper = "start"
              THEN focusOpt(w, getLastFocusableElement(w.kids, container))
              ELSE w
    IN  IF target.tag = "focus-bumper" /\ target.dataBumper = "end"
        THEN focusOpt(w1, getFirstFocusableElement(w1.kids, container))
        ELSE w1

FocusTrap_start(w, container) ==
    LET w1 == [w EXCEPT !.kids = buildFocusBumperElements(w.kids, container)]
    IN  focusOpt(w1, getFirstFocusableElement(w1.kids, container))

\* the ids of the nodes a removal of the bumpers of c takes out of the document
bumperIds(K, c) ==
    LET B == queryBumpers(K, c)
    IN  {B[i].id : i \in 1..Len(B)}

FocusTrap_stop_KeepsEnd(w, container) ==
    LET S == Subtree(w.kids, container)
    IN
    [w EXCEPT
        !.kids = [x \in DOMAIN w.kids |->
                    IF x \in S
                    THEN SelectSeq(w.kids[x],
                             LAMBDA n : ~(isBumperElement(n) /\ n.dataBumper = "start"))
                    ELSE w.kids[x]]]

\* bumper.remove() for every bumper below the container; a removed element
\* that had the focus loses it to the body.
FocusTrap_stop(w, container) ==
    LET S == Subtree(w.kids, container)
    IN
    [w EXCEPT
        !.kids = [x \in DOMAIN w.kids |->
                    IF x \in S
                    THEN SelectSeq(w.kids[x], LAMBDA n : ~isBumperElement(n))
                    ELSE w.kids[x]],
        !.focus = IF w.focus \in bumperIds(w.kids, container) THEN BodyId ELSE @]

\* A focus event at a bumper: the browser has moved the focus to it, and its
\* listeners run in the order they were added.
RECURSIVE runFocusListeners(_, _, _)
runFocusListeners(w, target, i) ==
    IF i > Len(target.listeners) THEN w
    ELSE runFocusListeners(focusTrapHandler(w, target, target.listeners[i]),
                           target, i + 1)

dispatchFocus(w, target) ==
    runFocusListeners([w EXCEPT !.focus = target.id], target, 1)


(***************************************************************************)
(* Modal                                                                   *)
(* The functions below take and return a world w: a record of the          *)
(* variables, so that a handler that calls other handlers is one step.     *)
(***************************************************************************)
\* the dialogs of the page, in document order
DialogOrder == <<"d1", "d2">>
Dialogs == {DialogOrder[i] : i \in 1..Len(DialogOrder)}

Range(s) == {s[i] : i \in 1..Len(s)}

\* the tasks the event loop holds: a queued close event of a dialog, the timer
\* set by Modal.close, the timer set by handleClosed of a dialog's controller
CloseEvent(d) == <<"closeEvent", d>>
CloseTimer == <<"closeTimer", "body">>
ClosedTimer(d) == <<"handleClosedTimer", d>>
TaskTypes == {CloseEvent(d) : d \in Dialogs} \cup {ClosedTimer(d) : d \in Dialogs}
                \cup {CloseTimer}

TotalTasks(t) ==
    t[CloseEvent("d1")] + t[CloseEvent("d2")] + t[ClosedTimer("d1")]
        + t[ClosedTimer("d2")] + t[CloseTimer]

addTask(w, task) == [w EXCEPT !.tasks[task] = @ + 1]
effect(w, what, d) == [w EXCEPT !.effects = Append(@, <<what, d>>)]

ScrollLocked == [overflowY |-> "hidden", paddingInlineEnd |-> "16px"]
ScrollUnset == [overflowY |-> "unset", paddingInlineEnd |-> "unset"]
ScrollInitial == [overflowY |-> "", paddingInlineEnd |-> ""]

Modal_isOpen(w, id) == id \in Range(w.topLayer)

Modal_isLocked(w, dialog) == w.dataLocked[dialog] = "true"

\* whether the focusing steps find the element: it is in the document, inside
\* an open dialog, rendered and not disabled
canRefocus(w, id) ==
    /\ id # BodyId
    /\ id[1] \in Range(w.topLayer)
    /\ LET D == Descendants(w.kids, id[1])
       IN  \E i \in 1..Len(D) :
              D[i].id = id /\ D[i].visible /\ ~D[i].hidden /\ ~D[i].disabled

\* where the focus is once the focusing steps have run for the element: on it,
\* or where the focus listeners of a bumper have moved it
refocused(w, id) ==
    IF id[2] \notin {StartBumperKey, EndBumperKey} THEN id
    ELSE dispatchFocus(w, SelectSeq(Descendants(w.kids, id[1]),
                                    LAMBDA x : x.id = id)[1]).focus

\* HTMLDialogElement.close() and the close that follows an uncancelled cancel
\* event: the open attribute goes, the focusing steps run for the element that
\* had the focus when the dialog was shown (if they do not find it the focus
\* stays where it is, also on an element of the closed dialog, until the
\* rendering is updated), and a close event is queued.
nativeClose(w, d) ==
    LET w1 == [w EXCEPT !.topLayer = SelectSeq(@, LAMBDA x : x # d),
                        !.previouslyFocused[d] = BodyId]
    IN  addTask([w1 EXCEPT
                    !.focus = IF canRefocus(w1, w.previouslyFocused[d])
                              THEN refocused(w1, w.previouslyFocused[d])
                              ELSE @],
                CloseEvent(d))

\* whether the element is a focusable area: an open dialog, or an element that
\* the focusing steps find
isFocusableArea(w, id) ==
    \/ id[2] = 0 /\ id[1] \in Range(w.topLayer)
    \/ canRefocus(w, id)

\* The focus fixup of "update the rendering": a focused element that is no
\* focusable area any more (it was disabled, as Modal.lock does with the close
\* button, or its dialog was closed) loses the focus to the body.
focusFixup(w) ==
    IF w.focus = BodyId \/ isFocusableArea(w, w.focus) THEN w
    ELSE [w EXCEPT !.focus = BodyId]

\* what the browser itself takes for focusable when it shows a dialog
takesFocus(n) ==
    tabIndex(n) > -1 /\ n.visible /\ ~n.hidden /\ ~n.disabled

\* HTMLDialogElement.showModal(): the open attribute is set, the dialog joins
\* the top layer and the dialog focusing steps run (the first descendant that
\* takes the focus, else the dialog itself).  A bumper that an earlier trap
\* left in the dialog is that descendant, and its focus listeners run.
showModal(w, d) ==
    LET f == SelectSeq(Descendants(w.kids, d), takesFocus)
        w1 == [w EXCEPT !.topLayer = Append(@, d),
                        !.previouslyFocused[d] = w.focus]
    IN  IF Len(f) > 0 THEN dispatchFocus(w1, f[1])
        ELSE [w1 EXCEPT !.focus = <<d, 0>>]

Modal_close_IgnoresLock(w, id, forceClose) ==
    IF ~Modal_isOpen(w, id) THEN w
    ELSE LET w1 == effect(FocusTrap_stop(w, id), "FocusTrap.stop", id)
             w2 == effect(nativeClose(w1, id), "dialog.close", id)
         IN  effect(addTask(w2, CloseTimer), "setTimeout", id)

Modal_close_NoTimer(w, id, forceClose) ==
    IF (Modal_isLocked(w, id) /\ ~forceClose) \/ ~Modal_isOpen(w, id) THEN w
    ELSE LET w1 == effect(FocusTrap_stop(w, id), "FocusTrap.stop", id)
         IN  effect(nativeClose(w1, id), "dialog.close", id)

Modal_close(w, id, forceClose) ==
    IF (Modal_isLocked(w, id) /\ ~forceClose) \/ ~Modal_isOpen(w, id) THEN w
    ELSE LET w1 == effect(FocusTrap_stop(w, id), "FocusTrap.stop", id)
             w2 == effect(nativeClose(w1, id), "dialog.close", id)
         IN  effect(addTask(w2, CloseTimer), "setTimeout", id)

\* openDialogs.forEach(dialog => Modal.close(dialog.id, forceClose)) over the
\* static list that querySelectorAll returned
RECURSIVE closeEach(_, _, _, _)
closeEach(w, openDialogs, i, forceClose) ==
    IF i > Len(openDialogs) THEN w
    ELSE closeEach(Modal_close(w, openDialogs[i], forceClose), openDialogs,
                   i + 1, forceClose)

Modal_closeAll_Forced(w, forceClose) ==
    closeEach(w, SelectSeq(DialogOrder, LAMBDA d : Modal_isOpen(w, d)), 1, TRUE)

Modal_closeAll(w, forceClose) ==
    LET openDialogs == SelectSeq(DialogOrder, LAMBDA d : Modal_isOpen(w, d))
    IN  closeEach(w, openDialogs, 1, forceClose)

\* the listener of "Modal:shown" that addEventListeners attaches
Modal_handleShown(w, d) == effect(w, "onShow", d)

\* what Modal.show does once it has decided to show the dialog
showSteps(w, id) ==
    LET w1 == effect(showModal(w, id), "dialog.showModal", id)
        w2 == effect(FocusTrap_start(w1, id), "FocusTrap.start", id)
        w3 == effect([w2 EXCEPT !.body = ScrollLocked], "scrollLock", id)
    IN  Modal_handleShown(effect(w3, "Modal:shown", id), id)

Modal_show_OpensFirst(w, id, closeOthers) ==
    IF Modal_isOpen(w, id) THEN w
    ELSE LET w1 == showSteps(w, id)
         IN  IF closeOthers
             THEN closeEach(w1, SelectSeq(DialogOrder,
                                    LAMBDA d : d # id /\ Modal_isOpen(w1, d)),
                            1, FALSE)
             ELSE w1

Modal_show(w, id, closeOthers) ==
    LET w1 == IF closeOthers THEN Modal_closeAll(w, FALSE) ELSE w
    IN  IF Modal_isOpen(w1, id) THEN w1 ELSE showSteps(w1, id)

Modal_toggle(w, id, closeOthers) ==
    IF Modal_isOpen(w, id) THEN Modal_close(w, id, FALSE)
    ELSE Modal_show(w, id, closeOthers)

\* String(doLock), as setAttribute stores it
boolAttr(b) == IF b THEN "true" ELSE "false"

Modal_lock(w, id, doLock) ==
    LET S == Subtree(w.kids, id)
    IN
    effect([w EXCEPT
              !.dataLocked[id] = boolAttr(doLock),
              !.kids = [x \in DOMAIN w.kids |->
                          IF x \in S
                          THEN [i \in 1..Len(w.kids[x]) |->
                                  IF w.kids[x][i].ariaControls = id
                                  THEN [w.kids[x][i] EXCEPT !.disabled = doLock]
                                  ELSE w.kids[x][i]]
                          ELSE w.kids[x]],
              !.keydown[id] = doLock],
           IF doLock THEN "Modal:locked" ELSE "Modal:unlocked", id)

Modal_handleClosed(w, dialog) ==
    IF Modal_isLocked(w, dialog) THEN w
    ELSE effect(addTask(w, ClosedTimer(dialog)), "setTimeout", dialog)

\* the listener of the dialog's close event that addEventListeners attaches
closeListener(w, d) == effect(Modal_handleClosed(w, d), "Modal:closed", d)

\* the callback of the timer that Modal.close sets
closeTimerCallback_UnlessOpen(w) ==
    IF w.topLayer = <<>>
    THEN effect([w EXCEPT !.body = ScrollUnset], "scrollUnlock", "body")
    ELSE w

closeTimerCallback(w) == effect([w EXCEPT !.body = ScrollUnset], "scrollUnlock", "body")

\* the callback of the timer that handleClosed sets
handleClosedTimerCallback(w, d) ==
    effect(effect([w EXCEPT !.body = ScrollUnset], "scrollUnlock", "body"),
           "onClose", d)

\* whether the focused element is the dialog or lies inside it
focusWithin(w, d) ==
    \/ w.focus = <<d, 0>>
    \/ LET D == Descendants(w.kids, d)
       IN  \E i \in 1..Len(D) : D[i].id = w.focus

\* The Escape key while a modal dialog is on top.  The key is pressed after
\* the rendering was updated, so the focus is on a focusable area or on the
\* body.  The keydown event bubbles from the focused element; when that is
\* inside the dialog it reaches the dialog, where preventEscape cancels it if
\* it listens; uncancelled, or with the focus outside the dialog, the browser
\* fires cancel (nobody listens) and closes the dialog.
escapeKey(w, d) ==
    LET w1 == focusFixup(w)
    IN  IF w1.keydown[d] /\ focusWithin(w1, d) THEN w1 ELSE nativeClose(w1, d)

(***************************************************************************)
(* The focus-trap specification: a page with two containers, c1 with up to *)
(* MaxKids children drawn from the palette, c2 with one button; c2 is      *)
(* either a child of c1 or a sibling of it.  FocusTrap.start and stop are  *)
(* called on either, the browser moves the focus to a bumper or to a       *)
(* focusable element (tab key, click), and the page enables or disables a  *)
(* control (as Modal.lock does with toggleAttribute("disabled")).          *)
(***************************************************************************)
FTContainers == {"c1", "c2"}

\* One element that takes the focus and one for each condition of canBeFocused
\* that can fail on a page element (the element that is container c2 is the
\* one the selector skips).
Palette(c, k) ==
    { Element(c, k, "button", "none", TRUE, FALSE, FALSE),   \* focusable
      Element(c, k, "button", "-1", TRUE, FALSE, FALSE),     \* tabindex="-1"
      Element(c, k, "button", "none", FALSE, FALSE, FALSE),  \* no layout box
      Element(c, k, "input", "none", TRUE, TRUE, FALSE),     \* hidden
      Element(c, k, "button", "none", TRUE, FALSE, TRUE) }   \* disabled

KidSeqs(c) ==
    UNION { { s \in [1..n -> UNION {Palette(c, k) : k \in 1..n}] :
                \A i \in 1..n : s[i] \in Palette(c, i) } : n \in 0..MaxKids }

\* the element that is container c2, as a child of c1
SubContainer(c, k, sub) ==
    [Element(c, k, "div", "none", TRUE, FALSE, FALSE) EXCEPT !.sub = sub]

InsertAt(s, p, e) == SubSeq(s, 1, p - 1) \o <<e>> \o SubSeq(s, p, Len(s))

FTWorld == [kids |-> kids, focus |-> focus]

FTLast(op, arg, which) ==
    [op |-> op, arg |-> arg, which |-> which,
     preBumpers |-> Len(queryBumpers(kids, arg))]

FTInit ==
    /\ \E s \in KidSeqs("c1") : \E nested \in BOOLEAN : \E p \in {1, Len(s) + 1} :
          kids = [c \in FTContainers |->
                    IF c = "c2"
                    THEN <<Element("c2", 1, "button", "none", TRUE, FALSE, FALSE)>>
                    ELSE IF nested
                         THEN InsertAt(s, p, SubContainer("c1", 0, "c2"))
                         ELSE IF p = 1 THEN s ELSE <<>>]
    /\ focus = BodyId
    /\ last = [op |-> "init", arg |-> "none", which |-> "none",
               preBumpers |-> 0]
    /\ topLayer = <<>> /\ dataLocked = <<>> /\ keydown = <<>>
    /\ previouslyFocused = <<>>
    /\ body = <<>> /\ tasks = <<>> /\ effects = <<>>
    /\ slides = <<>> /\ dots = <<>> /\ arrows = <<>> /\ emitted = <<>>
    /\ tabs = <<>> /\ panels = <<>>
    /\ show = <<>>
    /\ variant = <<>> /\ containers = <<>> /\ timers = <<>> /\ notices = <<>>
    /\ form1 = <<>> /\ form2 = <<>> /\ matches = <<>>
    /\ elements = <<>> /\ modals = <<>> /\ heard = <<>>

FTStart(c) ==
    LET w == FocusTrap_start(FTWorld, c)
    IN  /\ kids' = w.kids
        /\ focus' = w.focus
        /\ last' = FTLast("start", c, "none")
        /\ UNCHANGED notFtVars

FTStop(c) ==
    LET w == FocusTrap_stop(FTWorld, c)
    IN  /\ kids' = w.kids
        /\ focus' = w.focus
        /\ last' = FTLast("stop", c, "none")
        /\ UNCHANGED notFtVars

\* The browser moves the focus to a bumper of c (tab past the last element,
\* shift-tab past the first): a focus event at the bumper.
FTFocusBumper(c, which) ==
    \E i \in 1..Len(kids[c]) :
        /\ isBumperElement(kids[c][i])
        /\ kids[c][i].dataBumper = which
        /\ LET w == dispatchFocus(FTWorld, kids[c][i])
           IN  /\ kids' = w.kids
               /\ focus' = w.focus
               /\ last' = FTLast("focusBumper", c, which)
               /\ UNCHANGED notFtVars

\* The user focuses an element that takes the focus (not a bumper).
FTFocusElement(c) ==
    \E i \in 1..Len(kids[c]) :
        /\ ~isBumperElement(kids[c][i])
        /\ canBeFocused(kids[c][i])
        /\ focus' = kids[c][i].id
        /\ kids' = kids
        /\ last' = FTLast("focusElement", c, "none")
        /\ UNCHANGED notFtVars

\* The page disables or enables a button of c.
FTToggleDisabled(c) ==
    \E i \in 1..Len(kids[c]) :
        /\ kids[c][i].tag = "button"
        /\ kids' = [kids EXCEPT ![c][i].disabled = ~@]
        /\ focus' = focus
        /\ last' = FTLast("toggleDisabled", c, "none")
        /\ UNCHANGED notFtVars

FTNext ==
    \/ \E c \in FTContainers :
            \/ FTStart(c)
            \/ FTStop(c)
            \/ FTFocusBumper(c, "start")
            \/ FTFocusBumper(c, "end")
            \/ FTFocusElement(c)
    \/ FTToggleDisabled("c2")

SpecFocusTrap == FTInit /\ [][FTNext]_vars


(***************************************************************************)
(* The dialog specification: the page after                                *)
(*   new Modal({id: "d1", variant: "drawer", onClickOutside, onShow, onClose})*)
(*   new Modal({id: "d2", onClickOutside, onShow, onClose})                *)
(* each dialog holding its close button and one input.  The page calls the *)
(* static methods, the user presses Escape, clicks the backdrop or the     *)
(* close button or swipes on the dialog on top, and the event loop runs    *)
(* the queued close events and the timers, in any order.                   *)
(***************************************************************************)
Variant == [d \in Dialogs |-> IF d = "d1" THEN "drawer" ELSE "modal"]

\* buildCloseButton: the button of the close wrapper, aria-controls = id
closeButton(d) ==
    [Element(d, 1, "button", "none", TRUE, FALSE, FALSE) EXCEPT !.ariaControls = d]

\* the index of the close button among the children of the dialog
closeButtonAt(K, d) == CHOOSE i \in 1..Len(K[d]) : K[d][i].ariaControls = d

\* what the onClickOutside callback of the host page does with the controller
\* it is given: nothing, or a request to close its dialog
HostRequests == {"none", "close"}

\* the click listener of the dialog: a click whose target is the dialog itself
\* (its backdrop) calls onClickOutside
clickListener(w, d, target, request) ==
    IF target = d /\ request = "close" THEN Modal_close(w, d, FALSE) ELSE w

\* addSwipeListeners.getDirection
minSwipeDistance == 50

abs(x) == IF x < 0 THEN -x ELSE x

getDirection(startX, endX, startY, endY) ==
    LET totalHorizontalDistance == abs(endX - startX)
        totalVerticalDistance == abs(endY - startY)
    IN  IF totalHorizontalDistance < minSwipeDistance
           /\ totalVerticalDistance < minSwipeDistance
        THEN "null"
        ELSE IF totalVerticalDistance > totalHorizontalDistance
             THEN (IF startY > endY THEN "UP"
                   ELSE IF startY < endY THEN "DOWN" ELSE "null")
             ELSE (IF startX > endX THEN "LEFT"
                   ELSE IF startX < endX THEN "RIGHT" ELSE "null")

\* the touchend listener of a drawer: onSwipeDown is Modal.close(this.dialog.id)
touchend(w, d, startX, endX, startY, endY) ==
    IF getDirection(startX, endX, startY, endY) = "DOWN"
    THEN Modal_close(w, d, FALSE)
    ELSE w

\* where a touch of the model ends, having started at (0, 0)
TouchEnds == {<<0, 60>>, <<0, 40>>, <<0, -60>>, <<60, 50>>}

MWorld ==
    [kids |-> kids, focus |-> focus, topLayer |-> topLayer,
     dataLocked |-> dataLocked, keydown |-> keydown,
     previouslyFocused |-> previouslyFocused, body |-> body,
     tasks |-> tasks, effects |-> <<>>]

\* How far the run has followed the hand-over scenario: show("d1"), then
\* show("d2", true), then only the event loop running what is pending.
EventLoopOps == {"closeEvent", "closeTimer", "handleClosedTimer", "render"}

Handoff(op, arg, flag) ==
    IF last.run = "start" /\ op = "show" /\ arg = "d1" THEN "d1 shown"
    ELSE IF last.run = "d1 shown" /\ op = "show" /\ arg = "d2" /\ flag THEN "handed over"
    ELSE IF last.run = "handed over" /\ op \in EventLoopOps THEN "handed over"
    ELSE "off"

\* the latest call or event
MLast(op, arg, flag) ==
    [op |-> op, arg |-> arg, flag |-> flag, run |-> Handoff(op, arg, flag)]

MCommit(world, l) ==
    \E w \in {world} :
        /\ kids' = w.kids
        /\ focus' = w.focus
        /\ topLayer' = w.topLayer
        /\ dataLocked' = w.dataLocked
        /\ keydown' = w.keydown
        /\ previouslyFocused' = w.previouslyFocused
        /\ body' = w.body
        /\ tasks' = w.tasks
        /\ effects' = w.effects
        /\ last' = l
        /\ UNCHANGED notModalVars

IsOnTop(d) == Len(topLayer) > 0 /\ topLayer[Len(topLayer)] = d

\* The page and the user act while fewer than MaxTasks tasks are pending (the
\* bound of the model on the queue of the event loop).
QueueHasRoom == TotalTasks(tasks) < MaxTasks

\* A user gesture is a task of the user interaction task source, which is
\* where dialog.close() queues the close event: it runs after the close events
\* queued before it.
NoCloseEventQueued == QueueHasRoom /\ \A d \in Dialogs : tasks[CloseEvent(d)] = 0

ModalInit ==
    /\ kids = [d \in Dialogs |->
                <<closeButton(d), Element(d, 2, "input", "none", TRUE, FALSE, FALSE)>>]
    /\ focus = BodyId
    /\ topLayer = <<>>
    /\ dataLocked = [d \in Dialogs |-> "false"]
    /\ keydown = [d \in Dialogs |-> FALSE]
    /\ previouslyFocused = [d \in Dialogs |-> BodyId]
    /\ body = ScrollInitial
    /\ tasks = [t \in TaskTypes |-> 0]
    /\ effects = <<>>
    /\ last = [op |-> "init", arg |-> "none", flag |-> FALSE, run |-> "start"]
    /\ slides = <<>> /\ dots = <<>> /\ arrows = <<>> /\ emitted = <<>>
    /\ tabs = <<>> /\ panels = <<>>
    /\ show = <<>>
    /\ variant = <<>> /\ containers = <<>> /\ timers = <<>> /\ notices = <<>>
    /\ form1 = <<>> /\ form2 = <<>> /\ matches = <<>>
    /\ elements = <<>> /\ modals = <<>> /\ heard = <<>>

\* The page as a user gesture finds it: the rendering has been updated since
\* the step before.
Rendered == focusFixup(MWorld)

MShow(d, closeOthers) ==
    /\ QueueHasRoom
    /\ MCommit(Modal_show(MWorld, d, closeOthers), MLast("show", d, closeOthers))

MClose(d, forceClose) ==
    /\ QueueHasRoom
    /\ MCommit(Modal_close(MWorld, d, forceClose), MLast("close", d, forceClose))

MCloseAll(forceClose) ==
    /\ QueueHasRoom
    /\ MCommit(Modal_closeAll(MWorld, forceClose), MLast("closeAll", "all", forceClose))

MToggle(d, closeOthers) ==
    /\ QueueHasRoom
    /\ MCommit(Modal_toggle(MWorld, d, closeOthers), MLast("toggle", d, closeOthers))

MLock(d, doLock) ==
    /\ QueueHasRoom
    /\ MCommit(Modal_lock(MWorld, d, doLock), MLast("lock", d, doLock))

\* The user clicks the close button of the dialog on top (a disabled button
\* gets no click): the document's click listener of Modal/events.js calls
\* Modal.toggle(ariaControls, true, event.target).
MClickCloseButton(d) ==
    /\ IsOnTop(d)
    /\ NoCloseEventQueued
    /\ ~kids[d][closeButtonAt(kids, d)].disabled
    /\ MCommit(Modal_toggle(Rendered, d, TRUE), MLast("clickCloseButton", d, TRUE))

\* The user clicks the backdrop of the dialog on top: event.target is the dialog.
MClickOutside(d) ==
    /\ IsOnTop(d)
    /\ NoCloseEventQueued
    /\ \E request \in HostRequests :
          MCommit(clickListener(Rendered, d, d, request),
                MLast("clickOutside", d, request = "close"))

MEscape(d) ==
    /\ IsOnTop(d)
    /\ NoCloseEventQueued
    /\ MCommit(escapeKey(Rendered, d), MLast("escape", d, FALSE))

\* The browser updates the rendering while the focused element is no
\* focusable area (between two calls of the page, or before a close event or
\* a timer).
MRender ==
    /\ Rendered # MWorld
    /\ MCommit(Rendered, MLast("render", "none", FALSE))

\* The user swipes on the drawer on top.
MSwipe(d) ==
    /\ IsOnTop(d)
    /\ NoCloseEventQueued
    /\ Variant[d] = "drawer"
    /\ \E e \in TouchEnds :
          MCommit(touchend(Rendered, d, 0, e[1], 0, e[2]),
                  MLast("swipe", d, getDirection(0, e[1], 0, e[2]) = "DOWN"))

\* The event loop runs a queued close event.
MCloseEvent(d) ==
    /\ tasks[CloseEvent(d)] > 0
    /\ MCommit(closeListener([MWorld EXCEPT !.tasks[CloseEvent(d)] = @ - 1], d),
               MLast("closeEvent", d, FALSE))

\* The timer set by Modal.close fires.
MCloseTimer ==
    /\ tasks[CloseTimer] > 0
    /\ MCommit(closeTimerCallback([MWorld EXCEPT !.tasks[CloseTimer] = @ - 1]),
               MLast("closeTimer", "all", FALSE))

\* The timer set by handleClosed fires.
MHandleClosedTimer(d) ==
    /\ tasks[ClosedTimer(d)] > 0
    /\ MCommit(handleClosedTimerCallback(
                   [MWorld EXCEPT !.tasks[ClosedTimer(d)] = @ - 1], d),
               MLast("handleClosedTimer", d, FALSE))

ModalNext ==
    \/ \E d \in Dialogs, b \in BOOLEAN :
          \/ MShow(d, b)
          \/ MClose(d, b)
          \/ MToggle(d, b)
          \/ MLock(d, b)
    \/ \E b \in BOOLEAN : MCloseAll(b)
    \/ \E d \in Dialogs :
          \/ MClickCloseButton(d)
          \/ MClickOutside(d)
          \/ MEscape(d)
          \/ MSwipe(d)
          \/ MCloseEvent(d)
          \/ MHandleClosedTimer(d)
    \/ MCloseTimer
    \/ MRender

SpecModal == ModalInit /\ [][ModalNext]_vars

\* The page drives the dialogs through the static methods alone (show, close,
\* closeAll, lock and unlock, forced or not) while the event loop delivers the
\* close events and runs the timers.
ModalCallsNext ==
    \/ \E d \in Dialogs, b \in BOOLEAN :
          \/ MShow(d, b)
          \/ MClose(d, b)
          \/ MLock(d, b)
    \/ \E b \in BOOLEAN : MCloseAll(b)
    \/ \E d \in Dialogs :
          \/ MCloseEvent(d)
          \/ MHandleClosedTimer(d)
    \/ MCloseTimer
    \/ MRender

SpecModalCalls == ModalInit /\ [][ModalCallsNext]_vars

(***************************************************************************)
(* The custom events of src/Modal/events.js: the page dispatches           *)
(* Modal:show, Modal:close and Modal:lock on the document with a detail    *)
(* that carries the id and the flag.  SpecModalEvents is the dialog        *)
(* specification with these three listeners added.                         *)
(***************************************************************************)
\* event.detail.closeOthers || true
showEventListener(w, id, closeOthers) == Modal_show(w, id, closeOthers \/ TRUE)

\* event.detail.forceClose || false
closeEventListener(w, id, forceClose) == Modal_close(w, id, forceClose \/ FALSE)

\* event.detail.doLock || true
lockEventListener(w, id, doLock) == Modal_lock(w, id, doLock \/ TRUE)

MShowEvent(d, closeOthers) ==
    /\ QueueHasRoom
    /\ MCommit(showEventListener(MWorld, d, closeOthers),
               MLast("Modal:show", d, closeOthers))

MCloseEventDispatched(d, forceClose) ==
    /\ QueueHasRoom
    /\ MCommit(closeEventListener(MWorld, d, forceClose),
               MLast("Modal:close", d, forceClose))

MLockEvent(d, doLock) ==
    /\ QueueHasRoom
    /\ MCommit(lockEventListener(MWorld, d, doLock),
               MLast("Modal:lock", d, doLock))

ModalEventsNext ==
    \/ \E d \in Dialogs, b \in BOOLEAN :
          \/ MShowEvent(d, b)
          \/ MCloseEventDispatched(d, b)
          \/ MLockEvent(d, b)
    \/ ModalNext

SpecModalEvents == ModalInit /\ [][ModalEventsNext]_vars

(***************************************************************************)
(* SlideShow                                                               *)
(* A slide is a record of its id and whether it carries the class          *)
(* is-active; a dot is a record of its aria-controls and whether it        *)
(* carries is-active.  Indexes are those of the code, from 0; Undefined    *)
(* stands for the undefined or null the code gets for a missing element.   *)
(* The functions take and return the slide show sw: a record of slides,    *)
(* dots, arrows and emitted.                                               *)
(***************************************************************************)
\* (the ids of the slides are the numbers of SlideIds, 0 is no id)
Undefined == [id |-> 0, active |-> FALSE]

\* NodeList[i] and Array[i]: undefined outside of the list
at(S, i) == IF i >= 0 /\ i < Len(S) THEN S[i + 1] ELSE Undefined

\* Array.prototype.indexOf
RECURSIVE indexFrom(_, _, _)
indexFrom(S, x, i) ==
    IF i > Len(S) THEN -1 ELSE IF S[i] = x THEN i - 1 ELSE indexFrom(S, x, i + 1)

indexOf(S, x) == indexFrom(S, x, 1)

\* querySelector(":scope > li.is-active"): the first active slide
activeSlide(S) ==
    LET a == SelectSeq(S, LAMBDA x : x.active)
    IN  IF Len(a) = 0 THEN Undefined ELSE a[1]

activeSlideIndex(S) == indexOf(S, activeSlide(S))
hasNoActiveSlide(S) == activeSlide(S) = Undefined
firstSlideIsActive(S) == activeSlideIndex(S) = 0
lastSlideIsActive(S) == activeSlideIndex(S) = Len(S) - 1
totalSlides(S) == Len(S)

\* what is asked of getSlide: a number or an id
Num(k) == <<"number", k>>
Id(i) == <<"string", i>>

getSlide_Wraps(S, slide) ==
    IF slide[1] = "number"
    THEN IF slide[2] > Len(S) - 1 THEN at(S, 0)
         ELSE IF slide[2] < 0 THEN at(S, Len(S) - 1)
         ELSE at(S, slide[2])
    ELSE LET m == SelectSeq(S, LAMBDA x : x.id = slide[2])
         IN  IF Len(m) = 0 THEN Undefined ELSE m[1]

getSlide(S, slide) ==
    IF slide[1] = "number"
    THEN IF slide[2] > Len(S) - 1 THEN at(S, Len(S) - 1)
         ELSE IF slide[2] < 0 THEN at(S, 0)
         ELSE at(S, slide[2])
    ELSE LET m == SelectSeq(S, LAMBDA x : x.id = slide[2])
         IN  IF Len(m) = 0 THEN Undefined ELSE m[1]

updatePrevNextButtons(sw) ==
    [sw EXCEPT !.arrows = [prev |-> firstSlideIsActive(sw.slides),
                           next |-> lastSlideIsActive(sw.slides)]]

\* the detail of the SlideShow:change event
slideShowChangeEvent(sw) ==
    [slide |-> activeSlide(sw.slides).id,
     index |-> activeSlideIndex(sw.slides),
     totalSlides |-> totalSlides(sw.slides),
     firstSlideIsActive |-> firstSlideIsActive(sw.slides),
     lastSlideIsActive |-> lastSlideIsActive(sw.slides)]

dispatchChange(sw) == [sw EXCEPT !.emitted = Append(@, slideShowChangeEvent(sw))]

\* with hasEqualSlideHeight the tallestSlide getter is evaluated, which reduces
\* the slides without an initial value and throws a TypeError on an empty
\* deck; without it activeSlide?.offsetHeight is read, which throws nothing
updateContainerHeight(sw) ==
    IF sw.hasEqualSlideHeight /\ sw.slides = <<>>
    THEN [sw EXCEPT !.threw = "TypeError"]
    ELSE sw

activateSlide_NoButtons(sw, slide) ==
    LET target == getSlide(sw.slides, slide)
        sw1 == [sw EXCEPT
                  !.slides = [i \in 1..Len(sw.slides) |->
                                [sw.slides[i] EXCEPT
                                   !.active = (sw.slides[i] = target)]],
                  !.dots = [i \in 1..Len(sw.dots) |->
                              [sw.dots[i] EXCEPT
                                 !.active = (target # Undefined
                                             /\ sw.dots[i].controls = target.id)]]]
    IN  dispatchChange(sw1)

activateSlide(sw, slide) ==
    LET target == getSlide(sw.slides, slide)
        sw1 == [sw EXCEPT
                  !.slides = [i \in 1..Len(sw.slides) |->
                                [sw.slides[i] EXCEPT
                                   !.active = (sw.slides[i] = target)]],
                  !.dots = [i \in 1..Len(sw.dots) |->
                              [sw.dots[i] EXCEPT
                                 !.active = (target # Undefined
                                             /\ sw.dots[i].controls = target.id)]]]
        sw2 == updatePrevNextButtons(sw1)
    IN  dispatchChange(IF ~sw.hasEqualSlideHeight
                       THEN updateContainerHeight(sw2) ELSE sw2)

buildPickerDots(sw) ==
    [sw EXCEPT !.dots = [i \in 1..Len(sw.slides) |->
                           [controls |-> sw.slides[i].id,
                            active |-> sw.slides[i].active]]]

refreshUI(sw) ==
    LET sw1 == IF hasNoActiveSlide(sw.slides) THEN activateSlide(sw, Num(0)) ELSE sw
    IN  updateContainerHeight(updatePrevNextButtons(buildPickerDots(sw1)))

\* settings.index is a number; insertAdjacentElement("afterend") puts the new
\* slide behind slides[index]
addSlide(sw, id, isActive, index) ==
    IF \E i \in 1..Len(sw.slides) : sw.slides[i].id = id THEN sw
    ELSE LET slide == [id |-> id, active |-> isActive]
             sw1 == [sw EXCEPT !.slides =
                        IF index > -1 /\ Len(@) > index
                        THEN InsertAt(@, index + 2, slide)
                        ELSE Append(@, slide)]
             sw2 == IF isActive THEN activateSlide(sw1, Id(id)) ELSE sw1
         IN  refreshUI(sw2)

destroySlide_NoRefresh(sw, slide) ==
    LET target == getSlide(sw.slides, slide)
        sw1 == [sw EXCEPT !.slides = SelectSeq(@, LAMBDA x : x # target)]
    IN  dispatchChange(sw1)

destroySlide(sw, slide) ==
    LET target == getSlide(sw.slides, slide)
        sw1 == [sw EXCEPT !.slides = SelectSeq(@, LAMBDA x : x # target)]
        sw2 == refreshUI(sw1)
    IN  IF sw2.threw # "none" THEN sw2 ELSE dispatchChange(sw2)

handleNavArrowClick(sw, dataSlide) ==
    IF dataSlide = "prev"
    THEN activateSlide(sw, Num(activeSlideIndex(sw.slides) - 1))
    ELSE IF dataSlide = "next"
         THEN activateSlide(sw, Num(activeSlideIndex(sw.slides) + 1))
         ELSE sw

\* swipeListeners
minX == 50

SlideShow_getDirection(startX, endX) ==
    IF abs(endX - startX) < minX THEN "null"
    ELSE IF endX < startX THEN "LEFT" ELSE "RIGHT"

\* the touchend listener of the stage, startX being what touchstart stored
SlideShow_touchend(sw, startX, endX) ==
    IF SlideShow_getDirection(startX, endX) = "LEFT"
    THEN activateSlide(sw, Num(activeSlideIndex(sw.slides) + 1))
    ELSE IF SlideShow_getDirection(startX, endX) = "RIGHT"
         THEN activateSlide(sw, Num(activeSlideIndex(sw.slides) - 1))
         ELSE sw

(***************************************************************************)
(* The slide-show specification: new SlideShow(...) with arrows and picker,*)
(* with or without hasEqualSlideHeight (show holds that setting), on a     *)
(* stage of 1 to MaxSlides slides, of which the markup marks none or one   *)
(* as active.  The page calls activateSlide, addSlide and destroySlide,    *)
(* and the user clicks an arrow or a dot or swipes.                        *)
(***************************************************************************)
SlideIds == 1..(MaxSlides + 1)

\* the numbers the page passes for a slide or an index
Indexes == (-2)..(MaxSlides + 1)

\* where a swipe ends that started at 0
SwipeEnds == {-60, -50, -40, 40, 60}

\* the deck of an instance whose setting hasEqualSlideHeight is h
Deck(h) ==
    [slides |-> slides, dots |-> dots, arrows |-> arrows, emitted |-> <<>>,
     threw |-> "none", hasEqualSlideHeight |-> h]

SSWorld == Deck(show.hasEqualSlideHeight)

\* the latest call, and the active index and the number of slides it found;
\* SSCommit adds what the call threw
SSLast(op, arg) ==
    [op |-> op, arg |-> arg, from |-> activeSlideIndex(slides), n |-> Len(slides),
     threw |-> "none"]

SSCommit(sw, l) ==
    /\ slides' = sw.slides
    /\ dots' = sw.dots
    /\ arrows' = sw.arrows
    /\ emitted' = sw.emitted
    /\ last' = [l EXCEPT !.threw = sw.threw]

\* the state after init(): build, addEventListeners, refreshUI
SSInit ==
    /\ \E hasEqualSlideHeight \in BOOLEAN :
          show = [hasEqualSlideHeight |-> hasEqualSlideHeight]
    /\ \E n \in 1..MaxSlides : \E a \in 0..n :
          LET markup == [i \in 1..n |-> [id |-> i, active |-> (i = a)]]
              sw == refreshUI([slides |-> markup, dots |-> <<>>,
                               arrows |-> [prev |-> FALSE, next |-> FALSE],
                               emitted |-> <<>>, threw |-> "none",
                               hasEqualSlideHeight |-> show.hasEqualSlideHeight])
          IN  /\ slides = sw.slides
              /\ dots = sw.dots
              /\ arrows = sw.arrows
              /\ emitted = sw.emitted
    /\ last = [op |-> "init", arg |-> <<>>, from |-> -1, n |-> 0, threw |-> "none"]
    /\ kids = <<>> /\ focus = <<>>
    /\ topLayer = <<>> /\ dataLocked = <<>> /\ keydown = <<>>
    /\ previouslyFocused = <<>>
    /\ body = <<>> /\ tasks = <<>> /\ effects = <<>>
    /\ tabs = <<>> /\ panels = <<>>
    /\ variant = <<>> /\ containers = <<>> /\ timers = <<>> /\ notices = <<>>
    /\ form1 = <<>> /\ form2 = <<>> /\ matches = <<>>
    /\ elements = <<>> /\ modals = <<>> /\ heard = <<>>

SSActivateIndex(k) ==
    /\ SSCommit(activateSlide(SSWorld, Num(k)), SSLast("activateSlide", Num(k)))
    /\ UNCHANGED notSsVars

SSActivateId(i) ==
    /\ SSCommit(activateSlide(SSWorld, Id(i)), SSLast("activateSlide", Id(i)))
    /\ UNCHANGED notSsVars

\* handleNavArrowClick with the prev or the next button as its target
SSArrow(dataSlide) ==
    /\ SSCommit(handleNavArrowClick(SSWorld, dataSlide), SSLast(dataSlide, <<>>))
    /\ UNCHANGED notSsVars

\* a click on a dot: the controls listener calls activateSlide(aria-controls)
SSDotClick(i) ==
    /\ i \in 1..Len(dots)
    /\ SSCommit(activateSlide(SSWorld, Id(dots[i].controls)),
                SSLast("dot", Id(dots[i].controls)))
    /\ UNCHANGED notSsVars

\* a touch on the stage from 0 to endX: touchstart, then touchend
SSSwipe(endX) ==
    /\ SSCommit(SlideShow_touchend(SSWorld, 0, endX),
                SSLast("swipe", <<SlideShow_getDirection(0, endX)>>))
    /\ UNCHANGED notSsVars

SSAddSlide(id, isActive, index) ==
    /\ Len(slides) < MaxSlides
    /\ SSCommit(addSlide(SSWorld, id, isActive, index),
                SSLast("addSlide", <<id, isActive, index>>))
    /\ UNCHANGED notSsVars

SSDestroyIndex(k) ==
    /\ SSCommit(destroySlide(SSWorld, Num(k)), SSLast("destroySlide", Num(k)))
    /\ UNCHANGED notSsVars

SSDestroyId(i) ==
    /\ SSCommit(destroySlide(SSWorld, Id(i)), SSLast("destroySlide", Id(i)))
    /\ UNCHANGED notSsVars

SSNext ==
    \/ \E k \in Indexes : SSActivateIndex(k) \/ SSDestroyIndex(k)
    \/ \E i \in SlideIds : SSActivateId(i) \/ SSDestroyId(i)
    \/ SSArrow("prev")
    \/ SSArrow("next")
    \/ \E i \in 1..MaxSlides : SSDotClick(i)
    \/ \E endX \in SwipeEnds : SSSwipe(endX)
    \/ \E id \in SlideIds, isActive \in BOOLEAN, index \in (-1)..MaxSlides :
          SSAddSlide(id, isActive, index)

SpecSlideShow == SSInit /\ [][SSNext]_vars

(***************************************************************************)
(* SlideShow construction                                                  *)
(* The instance o is a record of the settings the constructor stores, of   *)
(* the stage document.getElementById found ("missing": null, else its      *)
(* tagName) and of what init has built: the number of containers put       *)
(* around the stage, the controls nav, the arrow buttons, the picker, the  *)
(* has-slide-overflow class of the stage and the listeners on the current  *)
(* controls, the stage and the window.  init takes and returns c: the      *)
(* instance o and the deck sw, whose field threw tells what left the call. *)
(***************************************************************************)
animationStyles == {"slide", "fade", "none"}

validateSettings(o) == o.animationStyle \in animationStyles

validateStage_AnyTag(o) == o.stage # "missing"

validateStage(o) ==
    IF o.stage = "missing" THEN FALSE
    ELSE IF o.stage # "OL" THEN FALSE
    ELSE TRUE

\* the forEach callback's return value is dropped
validateSlides(o) == TRUE

setStageAttributes(o) == [o EXCEPT !.stageOverflow = o.hasSlideOverflow]

\* a new div is put around the stage, inside the containers built before
buildContainer(o) == [o EXCEPT !.container = @ + 1]

buildNavArrows(o) ==
    IF ~o.hasNavArrows \/ o.hasSlideOverflow THEN o
    ELSE [o EXCEPT !.navArrows = TRUE]

buildPicker(o) ==
    IF ~o.hasPicker THEN o ELSE [o EXCEPT !.picker = TRUE]

\* this.controls becomes a new nav, which has no listener
buildControls(o) ==
    IF ~o.hasNavArrows /\ ~o.hasPicker THEN o
    ELSE buildPicker(buildNavArrows([o EXCEPT !.controls = TRUE,
                                              !.listeners = @ \ {"click"}]))

build(o) == buildControls(buildContainer(setStageAttributes(o)))

\* controlsListener (this.controls?.), swipeListeners, resizeListener
addEventListeners(o) ==
    IF o.eventsInitialized THEN o
    ELSE [o EXCEPT !.listeners = @ \cup (IF o.controls THEN {"click"} ELSE {})
                                   \cup {"touchstart", "touchend", "resize"},
                   !.eventsInitialized = TRUE]

\* refreshUI of an instance: the dots exist only in a picker, and the
\* disabled attribute of the arrows only on buttons that were built
SlideShow_refreshUI(c) ==
    LET r == refreshUI(c.sw)
    IN  [c EXCEPT !.sw = [r EXCEPT !.dots = IF c.o.picker THEN @ ELSE c.sw.dots,
                                   !.arrows = IF c.o.navArrows THEN @
                                              ELSE c.sw.arrows]]

\* a TypeError of refreshUI leaves init before initialized is set
SlideShow_init(c) ==
    IF \/ c.o.initialized
       \/ ~validateSettings(c.o)
       \/ ~validateStage(c.o)
       \/ ~validateSlides(c.o)
    THEN c
    ELSE LET c1 == [c EXCEPT !.o = addEventListeners(build(c.o))]
             c2 == SlideShow_refreshUI(c1)
         IN  IF c2.sw.threw # "none" THEN c2
             ELSE [c2 EXCEPT !.o.initialized = TRUE]

\* new SlideShow(settings): the fields are stored, then init runs in the same
\* call; stage is what getElementById finds, sw the deck of the page
constructor(sw, animationStyle, stage, hasPicker, hasNavArrows, hasEqualSlideHeight, hasSlideOverflow) ==
    SlideShow_init(
        [o |-> [animationStyle |-> animationStyle, stage |-> stage,
                hasPicker |-> hasPicker, hasNavArrows |-> hasNavArrows,
                hasEqualSlideHeight |-> hasEqualSlideHeight,
                hasSlideOverflow |-> hasSlideOverflow,
                initialized |-> FALSE, eventsInitialized |-> FALSE,
                container |-> 0, controls |-> FALSE, navArrows |-> FALSE,
                picker |-> FALSE, stageOverflow |-> FALSE, listeners |-> {}],
         sw |-> sw])

(***************************************************************************)
(* The construction specification.  The first state is the page: the       *)
(* element with the id is absent or is a list of up to MaxSlides slides,   *)
(* none of them active, and show holds only its tag.  The page then calls  *)
(* new SlideShow(settings) once, after which show is the instance, and     *)
(* calls init() of the instance again later.                               *)
(***************************************************************************)
StyleSettings == animationStyles \cup {"zoom"}
StageTags == {"missing", "OL", "UL", "DIV"}
notShowVars == <<ftVars, modalVars, tabVars, bannerVars, formVars, constructVars>>

\* the containers init may have put around the stage before the page stops
\* calling it
MaxBuilds == 2

ShowInit ==
    /\ \E stage \in StageTags : show = [stage |-> stage]
    /\ \E n \in 0..MaxSlides :
          slides = IF show.stage = "missing" THEN <<>>
                   ELSE [i \in 1..n |-> [id |-> i, active |-> FALSE]]
    /\ dots = <<>>
    /\ arrows = [prev |-> FALSE, next |-> FALSE]
    /\ emitted = <<>>
    /\ last = [op |-> "load", arg |-> <<>>, threw |-> "none"]
    /\ kids = <<>> /\ focus = <<>>
    /\ topLayer = <<>> /\ dataLocked = <<>> /\ keydown = <<>>
    /\ previouslyFocused = <<>>
    /\ body = <<>> /\ tasks = <<>> /\ effects = <<>>
    /\ tabs = <<>> /\ panels = <<>>
    /\ variant = <<>> /\ containers = <<>> /\ timers = <<>> /\ notices = <<>>
    /\ form1 = <<>> /\ form2 = <<>> /\ matches = <<>>
    /\ elements = <<>> /\ modals = <<>> /\ heard = <<>>

ShowCommit(c, op, arg) ==
    /\ show' = c.o
    /\ slides' = c.sw.slides
    /\ dots' = c.sw.dots
    /\ arrows' = c.sw.arrows
    /\ emitted' = c.sw.emitted
    /\ last' = [op |-> op, arg |-> arg, threw |-> c.sw.threw]

\* new SlideShow({ animationStyle, hasPicker, hasNavArrows,
\*                 hasEqualSlideHeight, hasSlideOverflow })
ShowConstruct(animationStyle, hasPicker, hasNavArrows, hasEqualSlideHeight, hasSlideOverflow) ==
    /\ last.op = "load"
    /\ ShowCommit(constructor(Deck(hasEqualSlideHeight), animationStyle,
                              show.stage, hasPicker, hasNavArrows,
                              hasEqualSlideHeight, hasSlideOverflow),
                  "new", <<animationStyle, hasPicker, hasNavArrows,
                           hasEqualSlideHeight, hasSlideOverflow>>)
    /\ UNCHANGED notShowVars

\* a later init() of the instance
ShowInitialize ==
    /\ last.op # "load"
    /\ show.container < MaxBuilds
    /\ ShowCommit(SlideShow_init([o |-> show, sw |-> SSWorld]), "init", <<>>)
    /\ UNCHANGED notShowVars

ShowNext ==
    \/ \E animationStyle \in StyleSettings :
       \E hasPicker \in BOOLEAN, hasNavArrows \in BOOLEAN,
          hasEqualSlideHeight \in BOOLEAN, hasSlideOverflow \in BOOLEAN :
          ShowConstruct(animationStyle, hasPicker, hasNavArrows,
                        hasEqualSlideHeight, hasSlideOverflow)
    \/ ShowInitialize

SpecSlideShowInit == ShowInit /\ [][ShowNext]_vars

(***************************************************************************)
(* TabbedModal                                                             *)
(* A tab is a record of its aria-controls, its aria-selected attribute and *)
(* its disabled property; a tab panel is a record of whether it is in the  *)
(* document and whether it carries the class d-none.  The functions take   *)
(* and return tw: a record of tabs and panels.  A call that throws a       *)
(* TypeError (a property of null is read) returns what it had written      *)
(* before.                                                                 *)
(***************************************************************************)
\* the index of the tab getTab finds (querySelector: the first match), 0: null
getTab(T, tabpanelId) ==
    IF \E i \in 1..Len(T) : T[i].controls = tabpanelId
    THEN CHOOSE i \in 1..Len(T) :
            /\ T[i].controls = tabpanelId
            /\ \A j \in 1..(i - 1) : T[j].controls # tabpanelId
    ELSE 0

\* tabpanel?.classList.add("d-none") / remove("d-none")
setDNone(P, tabpanelId, dNone) ==
    IF P[tabpanelId].present THEN [P EXCEPT ![tabpanelId].dNone = dNone] ELSE P

addTab(tw, tabpanelId, isSelected, isDisabled, position) ==
    IF getTab(tw.tabs, tabpanelId) # 0 THEN tw
    ELSE IF ~tw.panels[tabpanelId].present THEN tw
    ELSE LET tab == [controls |-> tabpanelId,
                     ariaSelected |-> boolAttr(isSelected),
                     disabled |-> isDisabled]
         IN  [tabs |-> IF position >= 0 /\ position < Len(tw.tabs)
                       THEN InsertAt(tw.tabs, position + 1, tab)
                       ELSE Append(tw.tabs, tab),
              panels |-> [tw.panels EXCEPT ![tabpanelId].dNone = ~isSelected]]

\* the forEach over the children of the tablist, the tab at index k excepted
RECURSIVE deselectOthers(_, _, _)
deselectOthers(tw, k, i) ==
    IF i > Len(tw.tabs) THEN tw
    ELSE IF i = k THEN deselectOthers(tw, k, i + 1)
    ELSE deselectOthers(
            [tabs |-> [tw.tabs EXCEPT ![i].ariaSelected = "false"],
             panels |-> setDNone(tw.panels, tw.tabs[i].controls, TRUE)],
            k, i + 1)

\* the static handler, given the tab at index k
tabClickHandler(tw, k) ==
    IF tw.tabs[k].ariaSelected = "true" \/ tw.tabs[k].disabled THEN tw
    ELSE LET tw1 == deselectOthers(tw, k, 1)
         IN  [tabs |-> [tw1.tabs EXCEPT ![k].ariaSelected = "true"],
              panels |-> setDNone(tw1.panels, tw1.tabs[k].controls, FALSE)]

\* without a tab for the panel, setAttribute is called on null: the TypeError
\* leaves the call before anything is written
deselectTab(tw, tabpanelId) ==
    LET t == getTab(tw.tabs, tabpanelId)
    IN  IF t = 0 THEN tw
        ELSE [tabs |-> [tw.tabs EXCEPT ![t].ariaSelected = "false"],
              panels |-> setDNone(tw.panels, tabpanelId, TRUE)]

\* deselectTab of every other tab, by its aria-controls
RECURSIVE deselectEach(_, _, _)
deselectEach(tw, k, i) ==
    IF i > Len(tw.tabs) THEN tw
    ELSE IF i = k THEN deselectEach(tw, k, i + 1)
    ELSE deselectEach(deselectTab(tw, tw.tabs[i].controls), k, i + 1)

selectTab(tw, tabpanelId) ==
    LET k == getTab(tw.tabs, tabpanelId)
        tw1 == deselectEach(tw, k, 1)
    IN  IF k = 0 THEN tw1
        ELSE [tabs |-> [tw1.tabs EXCEPT ![k].ariaSelected = "true"],
              panels |-> setDNone(tw1.panels, tabpanelId, FALSE)]

disableTab(tw, tabpanelId, doDisable) ==
    LET k == getTab(tw.tabs, tabpanelId)
    IN  IF k = 0 THEN tw
        ELSE [tw EXCEPT !.tabs[k].disabled = doDisable]

destroyTab(tw, tabpanelId, destroyTabPanel) ==
    LET k == getTab(tw.tabs, tabpanelId)
    IN  IF k = 0 THEN tw
        ELSE [tabs |-> SubSeq(tw.tabs, 1, k - 1) \o SubSeq(tw.tabs, k + 1, Len(tw.tabs)),
              panels |-> IF destroyTabPanel
                         THEN [tw.panels EXCEPT ![tabpanelId].present = FALSE]
                         ELSE tw.panels]

\* every tab is removed, and with destroyAllTabPanels the panel of each
destroyAllTabs(tw, destroyAllTabPanels) ==
    [tabs |-> <<>>,
     panels |-> [p \in DOMAIN tw.panels |->
                   IF /\ destroyAllTabPanels
                      /\ \E i \in 1..Len(tw.tabs) : tw.tabs[i].controls = p
                   THEN [tw.panels[p] EXCEPT !.present = FALSE]
                   ELSE tw.panels[p]]]

(***************************************************************************)
(* The tabbed-modal specification: new TabbedModal(...) with an empty      *)
(* tablist and MaxTabs tab panels in the document.  The page calls addTab, *)
(* selectTab, deselectTab, disableTab, destroyTab, destroyAllTabs and the  *)
(* static tabClickHandler, and the user clicks a tab.                      *)
(***************************************************************************)
PanelIds == 1..MaxTabs

TWorld == [tabs |-> tabs, panels |-> panels]

TLast(op, arg, flag) == [op |-> op, arg |-> arg, flag |-> flag]

TCommit(tw, l) ==
    /\ tabs' = tw.tabs
    /\ panels' = tw.panels
    /\ last' = l

TabsInit ==
    /\ tabs = <<>>
    /\ panels = [p \in PanelIds |-> [present |-> TRUE, dNone |-> FALSE]]
    /\ last = [op |-> "init", arg |-> 0, flag |-> <<>>]
    /\ kids = <<>> /\ focus = <<>>
    /\ topLayer = <<>> /\ dataLocked = <<>> /\ keydown = <<>>
    /\ previouslyFocused = <<>>
    /\ body = <<>> /\ tasks = <<>> /\ effects = <<>>
    /\ slides = <<>> /\ dots = <<>> /\ arrows = <<>> /\ emitted = <<>>
    /\ show = <<>>
    /\ variant = <<>> /\ containers = <<>> /\ timers = <<>> /\ notices = <<>>
    /\ form1 = <<>> /\ form2 = <<>> /\ matches = <<>>
    /\ elements = <<>> /\ modals = <<>> /\ heard = <<>>

TAddTab(p, isSelected, isDisabled, position) ==
    /\ TCommit(addTab(TWorld, p, isSelected, isDisabled, position),
               TLast("addTab", p, <<isSelected, isDisabled, position>>))
    /\ UNCHANGED notTabVars

TSelectTab(p) ==
    /\ TCommit(selectTab(TWorld, p), TLast("selectTab", p, <<>>))
    /\ UNCHANGED notTabVars

\* The user clicks a tab (a disabled button gets no click): its click listener
\* calls selectTab(tabpanelId).
TClickTab(i) ==
    /\ i \in 1..Len(tabs)
    /\ ~tabs[i].disabled
    /\ TCommit(selectTab(TWorld, tabs[i].controls),
               TLast("clickTab", tabs[i].controls, <<>>))
    /\ UNCHANGED notTabVars

\* TabbedModal.tabClickHandler(tab) with the tab of a panel, as the document's
\* click listener calls it for a control that names the dialog and the panel
TTabClickHandler(p) ==
    /\ getTab(tabs, p) # 0
    /\ TCommit(tabClickHandler(TWorld, getTab(tabs, p)),
               TLast("tabClickHandler", p, <<>>))
    /\ UNCHANGED notTabVars

TDeselectTab(p) ==
    /\ TCommit(deselectTab(TWorld, p), TLast("deselectTab", p, <<>>))
    /\ UNCHANGED notTabVars

TDestroyAllTabs(destroyAllTabPanels) ==
    /\ TCommit(destroyAllTabs(TWorld, destroyAllTabPanels),
               TLast("destroyAllTabs", 0, <<destroyAllTabPanels>>))
    /\ UNCHANGED notTabVars

TDisableTab(p, doDisable) ==
    /\ TCommit(disableTab(TWorld, p, doDisable), TLast("disableTab", p, <<doDisable>>))
    /\ UNCHANGED notTabVars

TDestroyTab(p, destroyTabPanel) ==
    /\ TCommit(destroyTab(TWorld, p, destroyTabPanel),
               TLast("destroyTab", p, <<destroyTabPanel>>))
    /\ UNCHANGED notTabVars

TabsNext ==
    \/ \E p \in PanelIds, isSelected \in BOOLEAN, isDisabled \in BOOLEAN,
          position \in (-1)..(MaxTabs - 1) :
            TAddTab(p, isSelected, isDisabled, position)
    \/ \E p \in PanelIds : TSelectTab(p) \/ TTabClickHandler(p) \/ TDeselectTab(p)
    \/ \E b \in BOOLEAN : TDestroyAllTabs(b)
    \/ \E i \in 1..MaxTabs : TClickTab(i)
    \/ \E p \in PanelIds, b \in BOOLEAN : TDisableTab(p, b) \/ TDestroyTab(p, b)

SpecTabs == TabsInit /\ [][TabsNext]_vars

(***************************************************************************)
(* AlertBanners                                                            *)
(* Three classes of this name are in the source: the one of                *)
(* src/AlertBanners/component.js, an older copy in                         *)
(* src/AlertBanners/_alert-banners.scss (suffix _v2 here) and the one of   *)
(* src/unnamed/part_000 whose validateSettings throws (suffix _v1).  A     *)
(* banner is a record of its id and of its class is-deployed.  A timer is  *)
(* a record of its kind, of the id its callback holds, of whether the      *)
(* element its callback holds is still in the document (attached; the      *)
(* callbacks that hold an element are those of component.js, where no two  *)
(* banners of the document have one id), of which element out of the       *)
(* document it holds (el, 0 while attached: the callbacks that hold one    *)
(* removed element have one number, and the removed elements are numbered  *)
(* in the order in which the pending timers hold them), of whether         *)
(* AlertBanners:dismissed has been dispatched on the element (dismissed)   *)
(* and of its delay.  The functions                                        *)
(* take and return bw: a record of the containers, the pending timers, the *)
(* events dispatched and the exception thrown ("none": the call returned). *)
(* A settings record s has hasMessage (message is not empty), id (0: not   *)
(* given), duration, location, type and removeOthers; no call-to-action is *)
(* asked for.                                                              *)
(***************************************************************************)
BannerLocations == {"top", "bottom"}
statusTypes == {"success", "trouble", "error", "featured", "info", "system"}
NoBanner == [id |-> 0, deployed |-> FALSE]

\* every banner of the document, in document order
AllBanners(C) == C["top"] \o C["bottom"]

\* the first element with the id, as document.getElementById finds it
getElementById(C, id) ==
    LET S == AllBanners(C)
        I == {i \in 1..Len(S) : S[i].id = id}
    IN  IF I = {} THEN NoBanner
        ELSE S[CHOOSE i \in I : \A j \in I : i <= j]

\* the ids of the banners of the document and those a pending timer holds
IdsInUse(bw) ==
    {AllBanners(bw.containers)[i].id : i \in 1..Len(AllBanners(bw.containers))}
        \cup {bw.timers[i].id : i \in 1..Len(bw.timers)}

\* ARIA.generateUniqueID("alertBanner"): an id no caller passes and nothing has
generateUniqueID(bw) ==
    10 + CHOOSE k \in 1..(Cardinality(IdsInUse(bw)) + 1) :
            /\ 10 + k \notin IdsInUse(bw)
            /\ \A f \in 1..(k - 1) : 10 + f \in IdsInUse(bw)

\* s without its element i
RemoveAt(s, i) == SubSeq(s, 1, i - 1) \o SubSeq(s, i + 1, Len(s))

\* element.remove() of the element getElementById(id) finds
removeElement(C, id) ==
    LET inTop == {i \in 1..Len(C["top"]) : C["top"][i].id = id}
        inBottom == {i \in 1..Len(C["bottom"]) : C["bottom"][i].id = id}
    IN  IF inTop # {}
        THEN [C EXCEPT !["top"] =
                RemoveAt(@, CHOOSE i \in inTop : \A j \in inTop : i <= j)]
        ELSE IF inBottom # {}
        THEN [C EXCEPT !["bottom"] =
                RemoveAt(@, CHOOSE i \in inBottom : \A j \in inBottom : i <= j)]
        ELSE C

\* the removed elements numbered again, from 1, in the order in which the
\* timers hold them
Renumbered(T) ==
    LET firsts == {i \in 1..Len(T) :
                     /\ T[i].el # 0
                     /\ \A j \in 1..(i - 1) : T[j].el # T[i].el}
    IN  [i \in 1..Len(T) |->
            IF T[i].el = 0 THEN T[i]
            ELSE [T[i] EXCEPT !.el =
                    Cardinality({f \in firsts :
                                    \E g \in firsts :
                                       T[g].el = T[i].el /\ f <= g})]]

\* the callbacks that hold the element with the id, which was in the document,
\* hold a removed element (Len(T) + 2: a number that no timer has)
detached(T, id) ==
    IF \A i \in 1..Len(T) : ~(T[i].id = id /\ T[i].attached) THEN T
    ELSE Renumbered([i \in 1..Len(T) |->
                        IF T[i].id = id /\ T[i].attached
                        THEN [T[i] EXCEPT !.attached = FALSE, !.el = Len(T) + 2]
                        ELSE T[i]])

\* AlertBanners:dismissed has been dispatched on the element the callback
\* holds, the one with the id when it is in the document and else the removed
\* element el: the callbacks that hold it hold an element whose listeners
\* have been told
told(T, id, el, attached) ==
    [i \in 1..Len(T) |->
        IF IF attached THEN T[i].id = id /\ T[i].attached ELSE T[i].el = el
        THEN [T[i] EXCEPT !.dismissed = TRUE]
        ELSE T[i]]

RECURSIVE detachedAll(_, _)
detachedAll(T, S) ==
    IF S = <<>> THEN T ELSE detachedAll(detached(T, Head(S).id), Tail(S))

setDeployed(C, id, deployed) ==
    [loc \in BannerLocations |->
        [i \in 1..Len(C[loc]) |->
            IF C[loc][i].id = id THEN [C[loc][i] EXCEPT !.deployed = deployed]
            ELSE C[loc][i]]]

setTimeout(bw, kind, id, attached, delay) ==
    [bw EXCEPT !.timers = Append(@, [kind |-> kind, id |-> id,
                                     attached |-> attached, el |-> 0,
                                     delay |-> delay, dismissed |-> FALSE])]

dispatchEvent(bw, type, detail) ==
    [bw EXCEPT !.notices = Append(@, <<type, detail>>)]

(***************************************************************************)
(* src/AlertBanners/component.js                                           *)
(***************************************************************************)
AlertBanners_validateSettings(s) ==
    /\ s.hasMessage
    /\ s.location \in {"top", "bottom"}
    /\ s.type \in statusTypes

\* the delay of the auto-dismiss timer of a duration other than 0
AutoDismissDelay(duration) == IF duration > 9 THEN duration * 1000 ELSE 10000

AlertBanners_deploy_Appends(bw, s) ==
    IF ~AlertBanners_validateSettings(s) THEN bw
    ELSE LET id == IF s.id = 0 THEN generateUniqueID(bw) ELSE s.id
         IN  IF getElementById(bw.containers, id) # NoBanner THEN bw
             ELSE dispatchEvent(
                    setTimeout([bw EXCEPT !.containers[s.location] =
                                   Append(@, [id |-> id, deployed |-> FALSE])],
                               "deployed", id, TRUE, 50),
                    "deployed", id)

AlertBanners_deploy(bw, s) ==
    IF ~AlertBanners_validateSettings(s) THEN bw
    ELSE LET id == IF s.id = 0 THEN generateUniqueID(bw) ELSE s.id
             banner == [id |-> id, deployed |-> FALSE]
         IN  IF getElementById(bw.containers, id) # NoBanner THEN bw
             ELSE LET \* container.innerHTML = ""
                      bw1 == [bw EXCEPT
                                !.timers = detachedAll(@, bw.containers[s.location]),
                                !.containers[s.location] = <<>>]
                      bw2 == IF s.duration # 0
                             THEN setTimeout(bw1, "dismiss", id, TRUE,
                                             AutoDismissDelay(s.duration))
                             ELSE bw1
                      bw3 == [bw2 EXCEPT !.containers[s.location] =
                                            Append(@, banner)]
                      bw4 == setTimeout(bw3, "deployed", id, TRUE, 50)
                  IN  dispatchEvent(bw4, "deployed", id)

\* the transition duration is read from the inline style, which nothing sets
transitionDuration == 250

AlertBanners_dismiss(bw, id) ==
    LET banner == getElementById(bw.containers, id)
    IN  IF banner = NoBanner THEN bw
        ELSE setTimeout([bw EXCEPT !.containers = setDeployed(@, id, FALSE)],
                        "remove", id, TRUE, transitionDuration)

\* the banners querySelectorAll finds under the container of the location,
\* under the body for any other location
bannersUnder(C, location) ==
    IF location \in {"top", "bottom"} THEN C[location] ELSE AllBanners(C)

RECURSIVE dismissEach(_, _)
dismissEach(bw, ids) ==
    IF ids = <<>> THEN bw
    ELSE dismissEach(AlertBanners_dismiss(bw, Head(ids)), Tail(ids))

AlertBanners_dismissAll(bw, location) ==
    LET found == bannersUnder(bw.containers, location)
        ids == [i \in 1..Len(found) |-> found[i].id]
    IN  dispatchEvent(dismissEach(bw, ids), "dismissedAll", location)

\* the callbacks of the timers of component.js
deployedCallback(bw, id, attached) ==
    IF attached THEN [bw EXCEPT !.containers = setDeployed(@, id, TRUE)]
    ELSE bw

\* the event is dispatched on the element the callback holds, in the
\* document or not; remove() of an element out of the document does nothing
removeCallback(bw, id, el, attached) ==
    LET bw1 == [dispatchEvent(bw, "dismissed", id) EXCEPT
                   !.timers = told(@, id, el, attached)]
    IN  IF attached
        THEN [bw1 EXCEPT !.containers = removeElement(@, id),
                         !.timers = detached(@, id)]
        ELSE bw1

(***************************************************************************)
(* src/AlertBanners/_alert-banners.scss: the class after the style rules   *)
(***************************************************************************)
\* "true", "false", or the exception: the warnings of a location and of a
\* type call join on the string that was passed
AlertBanners_validateSettings_v2(s) ==
    IF s.location \notin {"top", "bottom"} THEN "TypeError"
    ELSE IF s.type \notin statusTypes THEN "TypeError"
    ELSE IF ~s.hasMessage THEN "false"
    ELSE "true"

AlertBanners_dismiss_v2(bw, id) ==
    LET banner == getElementById(bw.containers, id)
    IN  IF banner = NoBanner THEN bw
        ELSE dispatchEvent([bw EXCEPT !.containers = removeElement(@, id)],
                           "dismissed", id)

RECURSIVE dismissEach_v2(_, _)
dismissEach_v2(bw, ids) ==
    IF ids = <<>> THEN bw
    ELSE dismissEach_v2(AlertBanners_dismiss_v2(bw, Head(ids)), Tail(ids))

AlertBanners_dismissAll_v2(bw, location) ==
    LET found == bannersUnder(bw.containers, location)
        ids == [i \in 1..Len(found) |-> found[i].id]
    IN  dispatchEvent(dismissEach_v2(bw, ids), "dismissedAll", location)

AlertBanners_deploy_v2(bw, s) ==
    LET valid == AlertBanners_validateSettings_v2(s)
    IN  IF valid = "TypeError" THEN [bw EXCEPT !.threw = "TypeError"]
        ELSE IF valid = "false" THEN bw
        ELSE LET id == IF s.id = 0 THEN generateUniqueID(bw) ELSE s.id
                 old == getElementById(bw.containers, id)
                 bw1 == IF old # NoBanner
                        THEN [bw EXCEPT !.containers = removeElement(@, id)]
                        ELSE bw
                 bw2 == IF s.removeOthers
                        THEN AlertBanners_dismissAll_v2(bw1, s.location)
                        ELSE bw1
                 bw3 == [bw2 EXCEPT !.containers[s.location] =
                            Append(@, [id |-> id, deployed |-> FALSE])]
                 bw4 == IF s.duration # 0
                        THEN setTimeout(bw3, "dismiss", id, TRUE,
                                        AutoDismissDelay(s.duration))
                        ELSE bw3
             IN  dispatchEvent(bw4, "deployed", id)

(***************************************************************************)
(* src/unnamed/part_000: the class whose validateSettings throws           *)
(***************************************************************************)
\* "true" or the exception: the message of the Error of a location and of a
\* type calls join on the string that was passed, which throws a TypeError
\* before the Error is made
AlertBanners_validateSettings_v1(s) ==
    IF ~s.hasMessage THEN "Error"
    ELSE IF s.location \notin {"top", "bottom"} THEN "TypeError"
    ELSE IF s.type \notin statusTypes THEN "TypeError"
    ELSE "true"

\* dismiss and dismissAll are the text of the _v2 class
AlertBanners_dismiss_v1(bw, id) == AlertBanners_dismiss_v2(bw, id)

AlertBanners_dismissAll_v1(bw, location) == AlertBanners_dismissAll_v2(bw, location)

AlertBanners_deploy_v1(bw, s) ==
    LET valid == AlertBanners_validateSettings_v1(s)
    IN  IF valid # "true" THEN [bw EXCEPT !.threw = valid]
        ELSE LET bw1 == IF s.removeOthers
                        THEN AlertBanners_dismissAll_v1(bw, s.location)
                        ELSE bw
                 id == IF s.id = 0 THEN generateUniqueID(bw1) ELSE s.id
                 bw2 == [bw1 EXCEPT !.containers[s.location] =
                            Append(@, [id |-> id, deployed |-> FALSE])]
                 bw3 == IF s.duration # 0
                        THEN setTimeout(bw2, "dismiss", id, TRUE, s.duration * 1000)
                        ELSE bw2
             IN  dispatchEvent(bw3, "deployed", id)

(***************************************************************************)
(* The banner specifications: a page with the template and the two empty   *)
(* containers topAlertBanners and bottomAlertBanners, whose scripts call   *)
(* deploy, dismiss and dismissAll (directly or by the custom events of     *)
(* events.js) while the timers run out.  SpecAlertBanners loads the class  *)
(* of component.js, SpecAlertBannerVariants any one of the three.          *)
(***************************************************************************)
BannerClasses == {"component", "v2", "v1"}
DeployIds == {0, 1}
DismissIds == {1, 11}
Durations == {0, 5, 10}
LocationSettings == {"top", "bottom", "left"}
TypeSettings == {"info", "bogus"}
\* the settings deploy is called with: every valid combination, and those
\* with one or with all three of the faults validateSettings looks for
ValidSettings ==
    [hasMessage : {TRUE}, id : DeployIds, duration : Durations,
     location : BannerLocations, type : {"info"}, removeOthers : BOOLEAN]
InvalidSettings ==
    [hasMessage : BOOLEAN, id : {1}, duration : {5},
     location : LocationSettings, type : TypeSettings, removeOthers : {TRUE}]
        \ ValidSettings
Settings == ValidSettings \cup InvalidSettings
notBannerVars == <<ftVars, modalVars, ssVars, tabVars, showVars, formVars, constructVars>>

BWorld == [containers |-> containers, timers |-> timers, notices |-> <<>>,
           threw |-> "none"]

deploy(bw, s) ==
    CASE variant = "component" -> AlertBanners_deploy(bw, s)
      [] variant = "v2" -> AlertBanners_deploy_v2(bw, s)
      [] variant = "v1" -> AlertBanners_deploy_v1(bw, s)

dismiss(bw, id) ==
    CASE variant = "component" -> AlertBanners_dismiss(bw, id)
      [] variant = "v2" -> AlertBanners_dismiss_v2(bw, id)
      [] variant = "v1" -> AlertBanners_dismiss_v1(bw, id)

dismissAll(bw, location) ==
    CASE variant = "component" -> AlertBanners_dismissAll(bw, location)
      [] variant = "v2" -> AlertBanners_dismissAll_v2(bw, location)
      [] variant = "v1" -> AlertBanners_dismissAll_v1(bw, location)

\* the call, with the settings of a deploy that the claims read
BLast(op, duration, location) ==
    [op |-> op, duration |-> duration, location |-> location]

BCommit(bw, l) ==
    /\ Len(AllBanners(bw.containers)) <= MaxBanners
    /\ Len(bw.timers) <= MaxTimers
    /\ containers' = bw.containers
    /\ timers' = bw.timers
    /\ notices' = bw.notices
    /\ last' = [op |-> l.op, duration |-> l.duration,
                location |-> l.location, threw |-> bw.threw]
    /\ UNCHANGED variant

\* a timer runs out before every timer set earlier with no shorter a delay
MayFire(j) ==
    /\ j \in 1..Len(timers)
    /\ \A i \in 1..(j - 1) : timers[i].delay > timers[j].delay

WithoutTimer(j) ==
    [BWorld EXCEPT !.timers = SubSeq(@, 1, j - 1) \o SubSeq(@, j + 1, Len(@))]

\* what the callback of timer j left: without that timer, the removed elements
\* that timers still hold are numbered again
AfterTimer(j, bw) ==
    IF timers[j].el = 0 THEN bw ELSE [bw EXCEPT !.timers = Renumbered(@)]

BannersInit(classes) ==
    /\ variant \in classes
    /\ containers = [loc \in BannerLocations |-> <<>>]
    /\ timers = <<>>
    /\ notices = <<>>
    /\ last = [op |-> "load", duration |-> 0, location |-> "none",
               threw |-> "none"]
    /\ kids = <<>> /\ focus = <<>>
    /\ topLayer = <<>> /\ dataLocked = <<>> /\ keydown = <<>>
    /\ previouslyFocused = <<>>
    /\ body = <<>> /\ tasks = <<>> /\ effects = <<>>
    /\ slides = <<>> /\ dots = <<>> /\ arrows = <<>> /\ emitted = <<>>
    /\ tabs = <<>> /\ panels = <<>>
    /\ show = <<>>
    /\ form1 = <<>> /\ form2 = <<>> /\ matches = <<>>
    /\ elements = <<>> /\ modals = <<>> /\ heard = <<>>

BDeploy(s) ==
    /\ BCommit(deploy(BWorld, s),
               IF s \in ValidSettings
               THEN BLast("deploy", s.duration, s.location)
               ELSE BLast("deploy invalid", 0, "none"))
    /\ UNCHANGED notBannerVars

BDismiss(id) ==
    /\ BCommit(dismiss(BWorld, id), BLast("dismiss", 0, "none"))
    /\ UNCHANGED notBannerVars

BDismissAll(location) ==
    /\ BCommit(dismissAll(BWorld, location), BLast("dismissAll", 0, "none"))
    /\ UNCHANGED notBannerVars

BAutoDismiss(j) ==
    /\ MayFire(j) /\ timers[j].kind = "dismiss"
    /\ BCommit(AfterTimer(j, dismiss(WithoutTimer(j), timers[j].id)),
               BLast("timer", 0, "none"))
    /\ UNCHANGED notBannerVars

BDeployed(j) ==
    /\ MayFire(j) /\ timers[j].kind = "deployed"
    /\ BCommit(AfterTimer(j, deployedCallback(WithoutTimer(j), timers[j].id,
                                              timers[j].attached)),
               BLast("timer", 0, "none"))
    /\ UNCHANGED notBannerVars

BRemove(j) ==
    /\ MayFire(j) /\ timers[j].kind = "remove"
    /\ BCommit(AfterTimer(j, removeCallback(WithoutTimer(j), timers[j].id,
                                            timers[j].el, timers[j].attached)),
               BLast("timer", 0, "none"))
    /\ UNCHANGED notBannerVars

BannersNext ==
    \/ \E s \in Settings : BDeploy(s)
    \/ \E id \in DismissIds : BDismiss(id)
    \/ \E location \in {"top", "bottom", "none"} : BDismissAll(location)
    \/ \E j \in 1..MaxTimers : BAutoDismiss(j)
    \/ \E j \in 1..MaxTimers : BDeployed(j)
    \/ \E j \in 1..MaxTimers : BRemove(j)

AlertBannersInit == BannersInit({"component"})

AlertBannerVariantsInit == BannersInit(BannerClasses)

SpecAlertBanners == AlertBannersInit /\ [][BannersNext]_vars

SpecAlertBannerVariants == AlertBannerVariantsInit /\ [][BannersNext]_vars

(***************************************************************************)
(* Modal: construction                                                     *)
(* src/unnamed/part_009, constructor, the class field alreadyInitialized,  *)
(* init and what init calls.  The page has one id for the dialog; an       *)
(* element is the record of what init reads and writes of it.  A Modal     *)
(* instance refers to its element by the element's place in elements       *)
(* (0: null).                                                              *)
(***************************************************************************)
ModalId == "d1"

\* dataLocked: the data-locked attribute as isLocked reads it ("false" stands
\* for an absent attribute too); closeEvents: the close events queued for it
NewDialog(id) ==
    [id |-> id, tag |-> "dialog", attached |-> TRUE, ariaModal |-> FALSE,
     open |-> FALSE, wraps |-> 0, closeWrappers |-> 0, closeListeners |-> <<>>,
     dataLocked |-> "false", closeEvents |-> 0]

\* document.getElementById(id): the first attached element that has the id,
\* 0 for null
Modal_getElementById(E, id) ==
    LET hits == {e \in 1..Len(E) : E[e].attached /\ E[e].id = id}
    IN  IF hits = {} THEN 0 ELSE CHOOSE e \in hits : \A k \in hits : e <= k

\* The class field: its initialiser runs when the instance is created, before
\* the body of the constructor, and reads this.id
alreadyInitializedField(E, thisId) ==
    /\ Modal_getElementById(E, thisId) # 0
    /\ E[Modal_getElementById(E, thisId)].ariaModal

Modal_buildDialog(c, m) ==
    IF c.modals[m].dialog = 0
    THEN [c EXCEPT !.elements = Append(@, NewDialog(c.modals[m].id)),
                   !.modals[m].dialog = Len(c.elements) + 1]
    ELSE c

Modal_setAttributes(c, m) ==
    [c EXCEPT !.elements[c.modals[m].dialog].ariaModal = TRUE]

Modal_wrapInnerContentInDiv(c, m) ==
    [c EXCEPT !.elements[c.modals[m].dialog].wraps = @ + 1]

\* querySelector finds a wrapper at any depth, so also one that a wrap moved
\* into the content div
Modal_buildCloseButton(c, m) ==
    LET d == c.modals[m].dialog
        existingWrapper == c.elements[d].closeWrappers > 0
        c1 == IF existingWrapper
              THEN [c EXCEPT !.elements[d].closeWrappers = @ - 1]
              ELSE c
    IN  IF c.modals[m].hasCloseButton
        THEN [c1 EXCEPT !.elements[d].closeWrappers = @ + 1]
        ELSE c1

\* the close listener of instance m on its dialog
Modal_addEventListeners(c, m) ==
    [c EXCEPT !.elements[c.modals[m].dialog].closeListeners = Append(@, m)]

Modal_init(c, m) ==
    IF c.modals[m].alreadyInitialized THEN c
    ELSE LET d == Modal_getElementById(c.elements, c.modals[m].id)
             c1 == [c EXCEPT !.modals[m].dialog = d]
             c2 == IF d # 0 /\ c1.elements[d].tag # "dialog"
                   THEN [c1 EXCEPT !.elements[d].attached = FALSE]
                   ELSE c1
             c3 == Modal_buildDialog(c2, m)
             c4 == Modal_setAttributes(c3, m)
             c5 == Modal_wrapInnerContentInDiv(c4, m)
             c6 == Modal_buildCloseButton(c5, m)
             c7 == Modal_addEventListeners(c6, m)
         IN  [c7 EXCEPT !.modals[m].alreadyInitialized = TRUE]

\* new Modal({id, onClose, hasCloseButton}); onClose: whether one is given
Modal_constructor(c, id, onClose, hasCloseButton) ==
    LET m == Len(c.modals) + 1
        fields == [id |-> id, onClose |-> onClose,
                   hasCloseButton |-> hasCloseButton,
                   alreadyInitialized |->
                       alreadyInitializedField(c.elements, "undefined"),
                   dialog |-> 0, timers |-> 0]
    IN  Modal_init([c EXCEPT !.modals = Append(@, fields)], m)

\* the close wrappers of element d that are not inside its outer content div:
\* the one that the buildCloseButton of the latest init has prepended to the
\* dialog, every other one having been moved into the div by the wrap
outerCloseWrappers(c, d) ==
    LET L == c.elements[d].closeListeners
    IN  IF c.modals[L[Len(L)]].hasCloseButton THEN 1 ELSE 0

\* Modal.insertContent(id, contents): the contents (a string of markup or an
\* element) become all there is inside the first neo-dialog-content div of
\* the dialog, which is the outer one; contents: how many neo-dialog-content
\* divs and close wrappers they hold.  Without an element of the id, or
\* without a content div in it, a property of null is read.
Modal_insertContent(c, id, contents) ==
    LET dialog == Modal_getElementById(c.elements, id)
    IN  IF dialog = 0 \/ c.elements[dialog].wraps = 0
        THEN [c EXCEPT !.threw = "TypeError"]
        ELSE [c EXCEPT
                !.elements[dialog].wraps = 1 + contents.contentDivs,
                !.elements[dialog].closeWrappers =
                    outerCloseWrappers(c, dialog) + contents.closeWrappers]

\* Modal.lock(id, doLock), of which only the attribute is kept here; without
\* an element of the id a property of null is read
Modal_setLocked(c, id, doLock) ==
    LET dialog == Modal_getElementById(c.elements, id)
    IN  IF dialog = 0 THEN [c EXCEPT !.threw = "TypeError"]
        ELSE [c EXCEPT !.elements[dialog].dataLocked = boolAttr(doLock)]

\* handleClosed of instance m for element d: nothing for a locked dialog, else
\* the timer of the animation speed is set
Modal_instanceHandleClosed(c, m, d) ==
    IF c.elements[d].dataLocked = "true" THEN c
    ELSE [c EXCEPT !.modals[m].timers = @ + 1]

\* The close listeners of element d, in the order added: each runs
\* handleClosed of its instance and dispatches Modal:closed.
RECURSIVE runCloseListeners(_, _, _)
runCloseListeners(c, d, i) ==
    IF i > Len(c.elements[d].closeListeners) THEN c
    ELSE LET m == c.elements[d].closeListeners[i]
         IN  runCloseListeners(
                 [Modal_instanceHandleClosed(c, m, d) EXCEPT
                     !.heard = Append(@, <<"Modal:closed", m>>)],
                 d, i + 1)

\* the callback of the timer of handleClosed of instance m
Modal_closedTimer(c, m) ==
    LET c1 == [c EXCEPT !.modals[m].timers = @ - 1]
    IN  IF c1.modals[m].onClose
        THEN [c1 EXCEPT !.heard = Append(@, <<"onClose", m>>)]
        ELSE c1

(***************************************************************************)
(* The construction specification: a page that has no element with the id, *)
(* a <dialog> with it or a <div> with it (with or without a close wrapper  *)
(* in the markup) constructs Modal instances for the id, inserts content,  *)
(* locks and unlocks, shows and closes the dialog; the event loop delivers *)
(* the close events and runs the timers.                                   *)
(***************************************************************************)
\* most Modal instances the page constructs
MaxModals == 2

PageMarkup ==
    {<<>>} \cup
    {<<[NewDialog(ModalId) EXCEPT !.tag = tag, !.closeWrappers = k]>> :
        tag \in {"dialog", "div"}, k \in {0, 1}}

\* the contents the page inserts
Contents == [contentDivs : {0, 1}, closeWrappers : {0, 1}]

CWorld ==
    [elements |-> elements, modals |-> modals, heard |-> <<>>, threw |-> "none"]

CCommit(c, op) ==
    /\ elements' = c.elements
    /\ modals' = c.modals
    /\ heard' = c.heard
    /\ last' = [op |-> op, threw |-> c.threw]
    /\ UNCHANGED <<ftVars, modalVars, ssVars, tabVars, showVars, bannerVars,
                   formVars>>

ConstructInit ==
    /\ elements \in PageMarkup
    /\ modals = <<>>
    /\ heard = <<>>
    /\ last = [op |-> "load", threw |-> "none"]
    /\ kids = <<>> /\ focus = <<>>
    /\ topLayer = <<>> /\ dataLocked = <<>> /\ keydown = <<>>
    /\ previouslyFocused = <<>>
    /\ body = <<>> /\ tasks = <<>> /\ effects = <<>>
    /\ slides = <<>> /\ dots = <<>> /\ arrows = <<>> /\ emitted = <<>>
    /\ tabs = <<>> /\ panels = <<>>
    /\ show = <<>>
    /\ variant = <<>> /\ containers = <<>> /\ timers = <<>> /\ notices = <<>>
    /\ form1 = <<>> /\ form2 = <<>> /\ matches = <<>>

CNewModal(onClose, hasCloseButton) ==
    /\ Len(modals) < MaxModals
    /\ CCommit(Modal_constructor(CWorld, ModalId, onClose, hasCloseButton),
               "new Modal")

CInsertContent(contents) ==
    CCommit(Modal_insertContent(CWorld, ModalId, contents), "insertContent")

CLock(doLock) ==
    CCommit(Modal_setLocked(CWorld, ModalId, doLock), "lock")

\* dialog.showModal() on the dialog that has the id; the page shows it again
\* only after the close event and the timers of the last closing have run
CShow ==
    /\ Modal_getElementById(elements, ModalId) # 0
    /\ elements[Modal_getElementById(elements, ModalId)].tag = "dialog"
    /\ ~elements[Modal_getElementById(elements, ModalId)].open
    /\ elements[Modal_getElementById(elements, ModalId)].closeEvents = 0
    /\ \A m \in 1..Len(modals) : modals[m].timers = 0
    /\ CCommit([CWorld EXCEPT
                  !.elements[Modal_getElementById(elements, ModalId)].open = TRUE],
               "show")

\* dialog.close() of the open dialog: the open attribute goes and a close
\* event is queued
CClose ==
    /\ Modal_getElementById(elements, ModalId) # 0
    /\ elements[Modal_getElementById(elements, ModalId)].open
    /\ CCommit([CWorld EXCEPT
                  !.elements[Modal_getElementById(elements, ModalId)].open = FALSE,
                  !.elements[Modal_getElementById(elements, ModalId)].closeEvents
                      = @ + 1],
               "close")

\* The event loop delivers a queued close event of element d.
CCloseEvent(d) ==
    /\ d <= Len(elements)
    /\ elements[d].closeEvents > 0
    /\ CCommit(runCloseListeners([CWorld EXCEPT !.elements[d].closeEvents = @ - 1],
                                 d, 1),
               "closeEvent")

CClosedTimer(m) ==
    /\ m <= Len(modals)
    /\ modals[m].timers > 0
    /\ CCommit(Modal_closedTimer(CWorld, m), "closedTimer")

ConstructNext ==
    \/ \E onClose \in BOOLEAN, hasCloseButton \in BOOLEAN :
          CNewModal(onClose, hasCloseButton)
    \/ \E contents \in Contents : CInsertContent(contents)
    \/ \E doLock \in BOOLEAN : CLock(doLock)
    \/ CShow
    \/ CClose
    \/ \E d \in 1..(MaxModals + 1) : CCloseEvent(d)
    \/ \E m \in 1..MaxModals : CClosedTimer(m)

SpecModalConstruct == ConstructInit /\ [][ConstructNext]_vars

(***************************************************************************)
(* FormHelper.formDataMatches                                              *)
(* src/FormTools/FormHelper.js (src/unnamed/part_004 has the same body).   *)
(* A FormData is the sequence of its entries <<key, value>> in the order   *)
(* they were appended; a key may occur more than once.                     *)
(***************************************************************************)
FormKeys == {"a", "b"}
FormValues == {"x", "y"}
FormEntries == FormKeys \X FormValues

\* entries2.find(([key2]) => key === key2): the index of the first entry with
\* the key, 0 when find returns undefined
findEntry(entries2, key) ==
    LET hits == {j \in 1..Len(entries2) : entries2[j][1] = key}
    IN  IF hits = {} THEN 0 ELSE CHOOSE j \in hits : \A k \in hits : j <= k

formDataMatches(formData1, formData2) ==
    LET entries1 == formData1
        entries2 == formData2
    IN  IF Len(entries1) # Len(entries2) THEN FALSE
        ELSE \A i \in 1..Len(entries1) :
                LET matchingEntry == findEntry(entries2, entries1[i][1])
                IN  /\ matchingEntry # 0
                    /\ entries1[i][2] = entries2[matchingEntry][2]

notFormVars == <<ftVars, modalVars, ssVars, tabVars, showVars, bannerVars, constructVars>>

FormInit ==
    /\ form1 = <<>>
    /\ form2 = <<>>
    /\ matches = FALSE
    /\ last = [op |-> "new FormData"]
    /\ kids = <<>> /\ focus = <<>>
    /\ topLayer = <<>> /\ dataLocked = <<>> /\ keydown = <<>>
    /\ previouslyFocused = <<>>
    /\ body = <<>> /\ tasks = <<>> /\ effects = <<>>
    /\ slides = <<>> /\ dots = <<>> /\ arrows = <<>> /\ emitted = <<>>
    /\ tabs = <<>> /\ panels = <<>>
    /\ show = <<>>
    /\ variant = <<>> /\ containers = <<>> /\ timers = <<>> /\ notices = <<>>
    /\ elements = <<>> /\ modals = <<>> /\ heard = <<>>

\* formData1.append(key, value)
FormAppend1(key, value) ==
    /\ Len(form1) < MaxEntries
    /\ form1' = Append(form1, <<key, value>>)
    /\ last' = [op |-> "append"]
    /\ UNCHANGED <<form2, matches, notFormVars>>

\* formData2.append(key, value)
FormAppend2(key, value) ==
    /\ Len(form2) < MaxEntries
    /\ form2' = Append(form2, <<key, value>>)
    /\ last' = [op |-> "append"]
    /\ UNCHANGED <<form1, matches, notFormVars>>

\* FormHelper.formDataMatches(formData1, formData2)
FormCompare ==
    /\ matches' = formDataMatches(form1, form2)
    /\ last' = [op |-> "formDataMatches"]
    /\ UNCHANGED <<form1, form2, notFormVars>>

FormNext ==
    \/ \E key \in FormKeys, value \in FormValues : FormAppend1(key, value)
    \/ \E key \in FormKeys, value \in FormValues : FormAppend2(key, value)
    \/ FormCompare

SpecFormHelper == FormInit /\ [][FormNext]_vars

(***************************************************************************)
(* Claims about FocusTrap (checked under SpecFocusTrap)                    *)
(***************************************************************************)
\* What the claims call a focusable descendant, stated on the attributes and
\* not through the code's predicate: a candidate of the selector with a tab
\* index of 0 or more that is rendered, not hidden, not disabled, no bumper.
ClaimFocusable(n) ==
    /\ n.tag \in {"button", "input"} \/ n.tabindexAttr = "0"
    /\ n.tabindexAttr # "-1"
    /\ n.visible /\ ~n.hidden /\ ~n.disabled
    /\ n.tag # "focus-bumper" /\ n.dataBumper = "none"

ClaimFocusables(c) == SelectSeq(Descendants(kids, c), ClaimFocusable)

\* the bumpers among the children of c
ChildBumpers(c) == SelectSeq(kids[c], LAMBDA n : n.tag = "focus-bumper")

\* C7: for a container with at least one focusable descendant, after
\* FocusTrap.start the focus is on the first focusable descendant; a focus
\* event at the end bumper sends the focus to the first focusable descendant
\* and one at the start bumper sends it to the last, the focusable descendants
\* being those of the moment of the event, never a bumper.
C7_StartAndWrap ==
    (last.op \in {"start", "focusBumper"} /\ Len(ClaimFocusables(last.arg)) > 0) =>
        LET f == ClaimFocusables(last.arg)
        IN  /\ last.op = "start" => focus = f[1].id
            /\ (last.op = "focusBumper" /\ last.which = "end") => focus = f[1].id
            /\ (last.op = "focusBumper" /\ last.which = "start") => focus = f[Len(f)].id

\* C7 witness: shift-tab past the first element of c1 has wrapped to the last
\* focusable descendant, which is not the first one, after the button of the
\* nested container c2 was disabled.
C7_Witness ==
    /\ last.op = "focusBumper" /\ last.which = "start" /\ last.arg = "c1"
    /\ Len(ClaimFocusables("c1")) >= 2
    /\ focus = ClaimFocusables("c1")[Len(ClaimFocusables("c1"))].id
    /\ "c2" \in Subtree(kids, "c1")
    /\ kids["c2"][Len(kids["c2"])].disabled

\* C8: FocusTrap.stop leaves no bumper below the container, and nothing that
\* is left in any container carries a focus listener of the trap (so no focus
\* redirection can happen afterwards); stop on a container without bumpers
\* changes neither the DOM nor the focus.
C8_StopRemovesTrap ==
    /\ [](last.op = "stop" =>
            \A i \in 1..Len(Descendants(kids, last.arg)) :
                LET n == Descendants(kids, last.arg)[i]
                IN  n.tag # "focus-bumper" /\ n.dataBumper = "none"
                    /\ n.listeners = <<>>)
    /\ [][(last'.op = "stop" /\ last'.preBumpers = 0) =>
            (kids' = kids /\ focus' = focus)]_vars

\* C8 witness: stop was called on a container that start had trapped, and the
\* container holds no bumper now.
C8_Witness ==
    /\ last.op = "stop" /\ last.preBumpers = 2 /\ last.arg = "c1"
    /\ Len(ChildBumpers("c1")) = 0

\* C9: every container has among its children either no bumper or exactly two,
\* the start bumper as first child and the end bumper as last child, each with
\* one focus listener; start on a container that already has its bumpers
\* changes no child list (no bumper and no listener is added).
C9_ZeroOrTwoBumpers ==
    /\ [](\A c \in DOMAIN kids :
            \/ Len(ChildBumpers(c)) = 0
            \/ /\ Len(ChildBumpers(c)) = 2
               /\ kids[c][1].tag = "focus-bumper" /\ kids[c][1].dataBumper = "start"
               /\ kids[c][Len(kids[c])].tag = "focus-bumper"
               /\ kids[c][Len(kids[c])].dataBumper = "end"
               /\ \A i \in 1..2 : Len(ChildBumpers(c)[i].listeners) = 1)
    /\ [][(last'.op = "start" /\ Len(ChildBumpers(last'.arg)) = 2) => kids' = kids]_vars

\* C9 witness: start was called on c1 while it was trapped, and c1 still has
\* exactly its two bumpers.
C9_Witness ==
    /\ last.op = "start" /\ last.arg = "c1" /\ last.preBumpers >= 2
    /\ Len(ChildBumpers("c1")) = 2

(***************************************************************************)
(* Claims about Modal (checked under SpecModal).  They are stated on the   *)
(* page: the open attribute (the top layer), the data-locked attribute,    *)
(* the bumpers among the children of the dialog, the style of the body,    *)
(* the pending tasks, and what the latest handler did.                     *)
(***************************************************************************)
IsOpen(d) == \E i \in 1..Len(topLayer) : topLayer[i] = d
IsLocked(d) == dataLocked[d] = "true"
IsTrapped(d) == Len(ChildBumpers(d)) = 2
Did(e, what, d) == \E i \in 1..Len(e) : e[i] = <<what, d>>
PageUnchanged ==
    /\ kids' = kids /\ focus' = focus /\ topLayer' = topLayer
    /\ dataLocked' = dataLocked /\ keydown' = keydown /\ body' = body
    /\ tasks' = tasks /\ previouslyFocused' = previouslyFocused

\* C1: Modal.close(id) with forceClose = false on an open locked dialog
\* changes nothing (the dialog stays open, its focus trap stays, no timer is
\* set, nothing is emitted), and Modal.close(id, true) on an open locked
\* dialog closes it, stops its trap and sets the scroll-unlock timer.
C1_CloseRespectsLock ==
    [][(last'.op = "close" /\ IsOpen(last'.arg) /\ IsLocked(last'.arg)) =>
          IF last'.flag
          THEN /\ last'.arg \notin Range(topLayer')
               /\ Len(SelectSeq(kids'[last'.arg], LAMBDA n : n.tag = "focus-bumper")) = 0
               /\ tasks'[CloseTimer] = tasks[CloseTimer] + 1
          ELSE PageUnchanged /\ effects' = <<>>]_vars

\* C1 witness: a close without force was the latest call, on a dialog that is
\* open, locked and trapped, while no task is pending.
C1_Witness ==
    /\ last.op = "close" /\ ~last.flag
    /\ IsOpen(last.arg) /\ IsLocked(last.arg) /\ IsTrapped(last.arg)
    /\ effects = <<>>
    /\ TotalTasks(tasks) = 0

\* C2 as stated: the data-locked attribute of a dialog says what the latest
\* lock call for it said; an open locked dialog stays open through the Escape
\* key, a click on its close button or another toggle, a click on its backdrop
\* and a swipe; a step in which an open locked dialog closes is a forced
\* Modal.close of it (close(id, true), or closeAll(true) calling it).
C2_LockedStaysOpen ==
    /\ [][/\ last'.op = "lock" => dataLocked'[last'.arg] = (IF last'.flag THEN "true" ELSE "false")
          /\ \A d \in Dialogs :
                (~(last'.op = "lock" /\ last'.arg = d)) => dataLocked'[d] = dataLocked[d]]_vars
    /\ [][\A d \in Dialogs :
            (IsOpen(d) /\ IsLocked(d)) =>
               /\ last'.op \in {"escape", "clickCloseButton", "toggle", "clickOutside", "swipe"}
                     => d \in Range(topLayer')
               /\ d \notin Range(topLayer')
                     => /\ last'.op \in {"close", "closeAll"} /\ last'.flag
                        /\ last'.op = "close" => last'.arg = d
                        /\ Did(effects', "dialog.close", d)]_vars

\* C3: Modal.closeAll(forceClose) leaves a dialog open exactly if it was open,
\* locked, and forceClose is false; every other dialog is closed after it.
C3_CloseAll ==
    [][last'.op = "closeAll" =>
          \A d \in Dialogs :
              d \in Range(topLayer') <=> (IsOpen(d) /\ IsLocked(d) /\ ~last'.flag)]_vars

\* C3 witness: closeAll() has closed an unlocked dialog and left a locked one
\* open.
C3_Witness ==
    /\ last.op = "closeAll" /\ ~last.flag
    /\ \E d, e \in Dialogs :
          /\ IsOpen(d) /\ IsLocked(d)
          /\ ~IsOpen(e) /\ ~IsLocked(e) /\ Did(effects, "dialog.close", e)

\* C4 as stated: Modal.show(id, closeOthers) on an open dialog, for either
\* closeOthers, does not close the dialog, emits no Modal:shown and does not
\* write the scroll lock.
C4_ShowOpenIsNoOp ==
    [][(last'.op = "show" /\ IsOpen(last'.arg)) =>
          /\ ~Did(effects', "dialog.close", last'.arg)
          /\ ~Did(effects', "dialog.showModal", last'.arg)
          /\ ~Did(effects', "Modal:shown", last'.arg)
          /\ ~Did(effects', "scrollLock", last'.arg)]_vars

\* C5: Modal.show(id, true) leaves another dialog open exactly if it was open
\* and locked; a dialog it has closed has no bumper left; and every close and
\* every stop of a trap it ran came before the showModal and before the start
\* of the trap of the target.
C5_ClosesOthersFirst ==
    [][(last'.op = "show" /\ last'.flag) =>
          /\ \A d \in Dialogs \ {last'.arg} :
                /\ d \in Range(topLayer') <=> (IsOpen(d) /\ IsLocked(d))
                /\ (IsOpen(d) /\ ~IsLocked(d)) =>
                      /\ Len(SelectSeq(kids'[d], LAMBDA n : n.tag = "focus-bumper")) = 0
                      /\ Did(effects', "FocusTrap.stop", d)
                      /\ Did(effects', "dialog.close", d)
          /\ \A i, j \in 1..Len(effects') :
                (/\ effects'[i][1] \in {"dialog.close", "FocusTrap.stop"}
                 /\ effects'[j][1] \in {"dialog.showModal", "FocusTrap.start"})
                    => i < j]_vars

\* C5 witness: show(id, true) has closed another dialog and shown its target.
C5_Witness ==
    /\ last.op = "show" /\ last.flag
    /\ \E d \in Dialogs \ {last.arg} :
          /\ Did(effects, "dialog.close", d) /\ ~IsOpen(d) /\ ~IsTrapped(d)
    /\ Did(effects, "dialog.showModal", last.arg)
    /\ IsOpen(last.arg) /\ IsTrapped(last.arg)

\* C6 as stated: from show("d1") on, and after show("d2", true) has followed
\* it, the scroll lock of the page is set; after the second call d1 is closed
\* and d2 is open, whatever the event loop has run of d1's teardown.
C6_ScrollLockHeld ==
    /\ last.run = "d1 shown" => (IsOpen("d1") /\ body.overflowY = "hidden")
    /\ last.run = "handed over" =>
          (~IsOpen("d1") /\ IsOpen("d2") /\ body.overflowY = "hidden")

(***************************************************************************)
(* Claims about SlideShow (checked under SpecSlideShow)                    *)
(***************************************************************************)
\* the indexes (from 0) of the slides that carry is-active
ActiveIndexes(S) == {i - 1 : i \in {j \in 1..Len(S) : S[j].active}}

Clamp(k, n) == IF k < 0 THEN 0 ELSE IF k > n - 1 THEN n - 1 ELSE k

\* C10: on a stage of N >= 1 slides, activateSlide(k) with a number k leaves
\* exactly the slide of index max(0, min(k, N-1)) active; the next arrow and a
\* swipe to the left from the active index i leave exactly min(i+1, N-1)
\* active, the prev arrow and a swipe to the right exactly max(i-1, 0): on the
\* last slide next keeps the last slide, on the first prev keeps the first
\* (with no slide active, i is the -1 the code reads).  None of them changes
\* the slides or their order.
C10_ActivateClamps ==
    [][Len(slides) >= 1 =>
          LET N == Len(slides)
              i == IF ActiveIndexes(slides) = {} THEN -1
                   ELSE CHOOSE x \in ActiveIndexes(slides) :
                            \A y \in ActiveIndexes(slides) : x <= y
              forward == last'.op = "next" \/ (last'.op = "swipe" /\ last'.arg = <<"LEFT">>)
              back == last'.op = "prev" \/ (last'.op = "swipe" /\ last'.arg = <<"RIGHT">>)
              numeric == last'.op = "activateSlide" /\ last'.arg[1] = "number"
          IN  /\ numeric =>
                    ActiveIndexes(slides') = {Clamp(last'.arg[2], N)}
              /\ forward =>
                    /\ ActiveIndexes(slides') = {Clamp(i + 1, N)}
                    /\ i = N - 1 => ActiveIndexes(slides') = {N - 1}
              /\ back =>
                    /\ ActiveIndexes(slides') = {Clamp(i - 1, N)}
                    /\ i = 0 => ActiveIndexes(slides') = {0}
              /\ (numeric \/ forward \/ back) =>
                    /\ Len(slides') = N
                    /\ \A j \in 1..N : slides'[j].id = slides[j].id]_vars

\* C10 witness: the next arrow was used on the last of at least two slides,
\* and the last slide is the active one.
C10_Witness ==
    /\ last.op = "next"
    /\ last.n >= 2 /\ last.from = last.n - 1
    /\ Len(slides) = last.n
    /\ ActiveIndexes(slides) = {last.n - 1}

\* C11: on a stage of N >= 2 slides, when destroySlide has removed the slide
\* that was active, exactly one of the remaining slides is active, and the
\* SlideShow:change event that destroySlide dispatches (the last one of the
\* step) reports that slide and its index.
C11_DestroyActive ==
    [][(/\ last'.op = "destroySlide"
        /\ Len(slides) >= 2
        /\ ActiveIndexes(slides) # {}
        /\ Len(slides') = Len(slides) - 1
        /\ \A a \in ActiveIndexes(slides) :
              \A j \in 1..Len(slides') : slides'[j].id # slides[a + 1].id) =>
          /\ Cardinality(ActiveIndexes(slides')) = 1
          /\ Len(emitted') >= 1
          /\ \A k \in ActiveIndexes(slides') :
                /\ emitted'[Len(emitted')].index = k
                /\ emitted'[Len(emitted')].slide = slides'[k + 1].id]_vars

\* C11 witness: destroySlide was given the index of the last slide, which was
\* the active one of at least two; one slide less is left and one is active.
C11_Witness ==
    /\ last.op = "destroySlide" /\ last.arg[1] = "number"
    /\ last.n >= 2 /\ last.from = last.n - 1
    /\ Clamp(last.arg[2], last.n) = last.from
    /\ Len(slides) = last.n - 1
    /\ Cardinality(ActiveIndexes(slides)) = 1

\* the indexes (from 0) of the dots that carry is-active
ActiveDots(D) == {i - 1 : i \in {j \in 1..Len(D) : D[j].active}}

\* C12: on a stage of N slides with its picker dots, activateSlide(i) with
\* 0 <= i < N leaves exactly slide i and exactly dot i active, the prev button
\* disabled iff i = 0, the next button disabled iff i = N-1, and dispatches one
\* SlideShow:change event, with index i, totalSlides N, firstSlideIsActive
\* (i = 0), lastSlideIsActive (i = N-1) and slide i as its slide.
C12_ActivateUpdatesAll ==
    [][(/\ last'.op = "activateSlide"
        /\ last'.arg[1] = "number"
        /\ last'.arg[2] >= 0 /\ last'.arg[2] < Len(slides)) =>
          LET i == last'.arg[2]
              N == Len(slides)
          IN  /\ Len(slides') = N /\ Len(dots') = N
              /\ ActiveIndexes(slides') = {i}
              /\ ActiveDots(dots') = {i}
              /\ dots'[i + 1].controls = slides'[i + 1].id
              /\ arrows'.prev = (i = 0)
              /\ arrows'.next = (i = N - 1)
              /\ emitted' = << [slide |-> slides'[i + 1].id,
                               index |-> i,
                               totalSlides |-> N,
                               firstSlideIsActive |-> (i = 0),
                               lastSlideIsActive |-> (i = N - 1)] >>]_vars

\* C12 witness: activateSlide(1) on three slides: the middle slide and the
\* middle dot are the active ones and both arrows are enabled.
C12_Witness ==
    /\ last.op = "activateSlide" /\ last.arg = <<"number", 1>>
    /\ last.n = 3 /\ last.from # 1
    /\ ActiveIndexes(slides) = {1}
    /\ ActiveDots(dots) = {1}
    /\ ~arrows.prev /\ ~arrows.next

\* C13 as stated: once the slide show is initialized, whatever was called
\* since, a stage that is not empty has exactly one active slide, whose index
\* lies in 0..N-1.
C13_ExactlyOneActive ==
    Len(slides) >= 1 =>
        /\ Cardinality(ActiveIndexes(slides)) = 1
        /\ activeSlideIndex(slides) >= 0
        /\ activeSlideIndex(slides) <= Len(slides) - 1

\* the ids of the slides of a deck, in document order
SlideOrder(S) == [k \in 1..Len(S) |-> S[k].id]

\* C17 as stated: addSlide of a new id with index i, 0 <= i < N, puts the new
\* slide at position i of the deck, the slides from position i on moving one
\* position later; with index -1 or i >= N it puts the new slide last; the
\* order of the slides that were there is unchanged.
C17_AddSlideAtIndex ==
    [][(/\ last'.op = "addSlide"
        /\ \A k \in 1..Len(slides) : slides[k].id # last'.arg[1])
       => LET id == last'.arg[1]
              i == last'.arg[3]
              N == Len(slides)
          IN  SlideOrder(slides') =
                 IF 0 <= i /\ i < N
                 THEN InsertAt(SlideOrder(slides), i + 1, id)
                 ELSE Append(SlideOrder(slides), id)]_vars

(***************************************************************************)
(* Claims about TabbedModal (checked under SpecTabs)                       *)
(***************************************************************************)
\* the indexes of the tabs whose aria-selected is "true"
SelectedTabs == {i \in 1..Len(tabs) : tabs[i].ariaSelected = "true"}

\* C14 as stated: whatever addTab, selectTab, tab clicks, disableTab and
\* destroyTab were called, a tablist with at least one tab has exactly one tab
\* with aria-selected "true", and of the panels its tabs control exactly the
\* panel of that tab is visible.
C14_ExactlyOneSelected ==
    Len(tabs) >= 1 =>
        /\ Cardinality(SelectedTabs) = 1
        /\ \A i \in 1..Len(tabs) :
              panels[tabs[i].controls].present =>
                  (~panels[tabs[i].controls].dNone <=> i \in SelectedTabs)

\* C15 as stated: neither TabbedModal.tabClickHandler with a disabled tab nor
\* selectTab(tabpanelId) for a disabled tab changes a tab or a panel.
C15_DisabledRejected ==
    [][(/\ last'.op \in {"tabClickHandler", "selectTab"}
        /\ getTab(tabs, last'.arg) # 0
        /\ tabs[getTab(tabs, last'.arg)].disabled) =>
          (tabs' = tabs /\ panels' = panels)]_vars

(***************************************************************************)
(* Claims about SlideShow construction (checked under SpecSlideShowInit)   *)
(***************************************************************************)
\* init left the instance as the constructor filled it in: not initialized,
\* no container, no controls, no listeners, the deck and the picker untouched
InitAborted ==
    /\ ~show.initialized /\ ~show.eventsInitialized
    /\ show.container = 0 /\ ~show.controls /\ ~show.navArrows /\ ~show.picker
    /\ show.listeners = {}
    /\ dots = <<>> /\ emitted = <<>>
    /\ \A i \in 1..Len(slides) : ~slides[i].active

BadStyle == show.animationStyle \notin {"slide", "fade", "none"}
BadStage == show.stage = "missing" \/ show.stage # "OL"
ArrowsWithOverflow == show.hasNavArrows /\ show.hasSlideOverflow

\* C16 as stated: after the construction, an instance with an animation style
\* outside slide/fade/none, with a missing stage, with a stage that is not an
\* ordered list, or with both hasNavArrows and hasSlideOverflow, is not
\* initialized and has no container, controls or listeners.
C16_AbortsInFourCases ==
    last.op = "new" =>
        (BadStyle \/ BadStage \/ ArrowsWithOverflow => InitAborted)

\* C16 amended: after the construction and after every later init, an
\* instance with an animation style outside slide/fade/none, with a missing
\* stage or with a stage that is not an ordered list is not initialized and
\* has no container, controls or listeners; the construction of an instance
\* with both hasNavArrows and hasSlideOverflow to which none of the three
\* applies builds the container and attaches the listeners, builds no arrow
\* buttons, and leaves the instance initialized if the stage has a slide.
C16_AbortsInThreeCases ==
    last.op # "load" =>
        /\ (BadStyle \/ BadStage) => InitAborted
        /\ (last.op = "new" /\ ~BadStyle /\ ~BadStage /\ ArrowsWithOverflow) =>
               /\ show.eventsInitialized /\ show.container = 1
               /\ {"touchstart", "touchend", "resize"} \subseteq show.listeners
               /\ ~show.navArrows
               /\ Len(slides) > 0 => show.initialized

\* an instance was constructed on a list that is not ordered, with an accepted
\* animation style, and init aborted
C16_Witness ==
    /\ last.op = "new"
    /\ show.stage = "UL" /\ ~BadStyle /\ Len(slides) > 0
    /\ InitAborted

(***************************************************************************)
(* Claims about AlertBanners (C18 checked under SpecAlertBanners, the      *)
(* class of component.js; C19 and C20 under SpecAlertBannerVariants)       *)
(***************************************************************************)
\* the latest call was a deploy that put a banner on the page
Deployed == last.op = "deploy" /\ notices # <<>>
DeployedId == notices[Len(notices)][2]

\* C18: whatever deploy, dismiss or dismissAll was called and whichever timer
\* ran out, each of the two containers holds at most one banner afterwards;
\* and after a deploy that put a banner on the page the container of its
\* location holds that banner, which was not in the document before, and
\* nothing else.
C18_OneBannerPerLocation ==
    [][/\ \A loc \in BannerLocations : Len(containers'[loc]) <= 1
       /\ Deployed' =>
            /\ Len(containers'[last'.location]) = 1
            /\ containers'[last'.location][1].id = DeployedId'
            /\ getElementById(containers, DeployedId') = NoBanner]_vars

\* a deploy has replaced a banner that a pending timer still holds
C18_Witness ==
    /\ Deployed
    /\ Len(containers[last.location]) = 1
    /\ \E j \in 1..Len(timers) :
          /\ timers[j].kind = "remove" /\ ~timers[j].attached
          /\ timers[j].id # DeployedId

\* how many pending timers will call dismiss(id)
AutoDismissals(T, id) ==
    Cardinality({j \in 1..Len(T) : T[j].kind = "dismiss" /\ T[j].id = id})

\* C19 as stated: a deploy with a duration of 1 to 9 seconds that puts a
\* banner on the page schedules no auto-dismiss for it.
C19_ShortDurationIsInfinite ==
    [][(Deployed' /\ last'.duration \in 1..9)
          => AutoDismissals(timers', DeployedId') <= AutoDismissals(timers, DeployedId')]_vars

\* C20 as stated: in the classes whose validateSettings warns, a deploy with
\* invalid settings (no message, a location other than top and bottom, an
\* unknown type) returns without throwing and leaves the containers and the
\* timers as they were and dispatches nothing.
C20_InvalidDeployIsInert ==
    [][(variant # "v1" /\ last'.op = "deploy invalid")
          => /\ last'.threw = "none"
             /\ containers' = containers
             /\ timers' = timers
             /\ notices' = <<>>]_vars

(***************************************************************************)
(* Claims about the custom events of Modal (checked under SpecModalEvents) *)
(***************************************************************************)
\* the page after the step is the page that the world w describes
PageIs(w) ==
    /\ kids' = w.kids /\ focus' = w.focus /\ topLayer' = w.topLayer
    /\ dataLocked' = w.dataLocked /\ keydown' = w.keydown /\ body' = w.body
    /\ tasks' = w.tasks /\ previouslyFocused' = w.previouslyFocused

\* C21 as stated: a Modal:show, Modal:close or Modal:lock event with the
\* detail {id, flag} leaves the page as the call Modal.show(id, flag),
\* Modal.close(id, flag) or Modal.lock(id, flag) on the same page leaves it,
\* for both values of the flag.
C21_EventsAreCalls ==
    [][/\ last'.op = "Modal:show" => PageIs(Modal_show(MWorld, last'.arg, last'.flag))
       /\ last'.op = "Modal:close" => PageIs(Modal_close(MWorld, last'.arg, last'.flag))
       /\ last'.op = "Modal:lock" => PageIs(Modal_lock(MWorld, last'.arg, last'.flag))]_vars

(***************************************************************************)
(* Claims about the close notification of Modal (checked under SpecModal)  *)
(***************************************************************************)
OnCloseCalls(e, d) == Cardinality({i \in 1..Len(e) : e[i] = <<"onClose", d>>})

\* C22 as stated: every time an open dialog becomes closed, onClose is
\* invoked for it exactly once, after the animation duration.  Step by step:
\* a closing queues one close event, the close event sets one timer of the
\* animation duration, and that timer calls onClose once; nothing else does.
C22_OnCloseOncePerClosing ==
    [][\A d \in Dialogs :
         /\ (IsOpen(d) /\ ~IsOpen(d)') =>
                tasks'[CloseEvent(d)] = tasks[CloseEvent(d)] + 1
         /\ tasks'[CloseEvent(d)] < tasks[CloseEvent(d)] =>
                tasks'[ClosedTimer(d)] = tasks[ClosedTimer(d)] + 1
         /\ OnCloseCalls(effects', d) =
                (IF tasks'[ClosedTimer(d)] < tasks[ClosedTimer(d)] THEN 1 ELSE 0)]_vars

(***************************************************************************)
(* Claims about FormHelper (checked under SpecFormHelper)                  *)
(***************************************************************************)
\* a has the entries of b: every key-value pair occurs in both the same
\* number of times
SameEntries(a, b) ==
    \A k \in FormKeys, v \in FormValues :
        Cardinality({i \in 1..Len(a) : a[i] = <<k, v>>})
            = Cardinality({i \in 1..Len(b) : b[i] = <<k, v>>})

\* C23 as stated: formDataMatches(a, b) is true exactly when a and b hold
\* the same entries, repeated keys counted, in whatever order; so the result
\* is the same with the arguments exchanged.
C23_MatchesIffSameEntries ==
    last.op = "formDataMatches" =>
        /\ matches = SameEntries(form1, form2)
        /\ matches = formDataMatches(form2, form1)

(***************************************************************************)
(* Claims about the deferred teardown of Modal (checked under SpecModal)   *)
(***************************************************************************)
\* C24: a pending teardown timer is never cancelled: it leaves the queue only
\* by firing, and when it fires it removes the scroll lock of the page
\* whether or not a dialog has been shown in the meantime.
C24_TeardownNeverCancelled ==
    [][/\ tasks'[CloseTimer] < tasks[CloseTimer] =>
            /\ last'.op = "closeTimer"
            /\ tasks'[CloseTimer] = tasks[CloseTimer] - 1
            /\ body' = ScrollUnset
       /\ \A d \in Dialogs :
            tasks'[ClosedTimer(d)] < tasks[ClosedTimer(d)] =>
                /\ last'.op = "handleClosedTimer" /\ last'.arg = d
                /\ tasks'[ClosedTimer(d)] = tasks[ClosedTimer(d)] - 1
                /\ body' = ScrollUnset]_vars

\* C24 witness: the timer of a close has fired while a dialog is open, and
\* the page scroll is unlocked under the open dialog.
C24_Witness ==
    /\ last.op = "closeTimer"
    /\ \E d \in Dialogs : IsOpen(d)
    /\ body = ScrollUnset

\* the focus bumpers inside dialog d
Bumpers(d) ==
    {i \in 1..Len(Descendants(kids, d)) :
        Descendants(kids, d)[i].tag = "focus-bumper"}

\* C27 as stated: in every reachable state a dialog that is closed contains
\* no focus bumper, whichever way it was closed.
C27_ClosedDialogHasNoBumpers ==
    \A d \in Dialogs : ~IsOpen(d) => Bumpers(d) = {}

(***************************************************************************)
(* Claims about sequences of Modal calls (checked under SpecModalCalls)    *)
(***************************************************************************)
\* no close event is queued and no teardown timer is pending
NothingPending == \A t \in DOMAIN tasks : tasks[t] = 0

\* C28: after any sequence of show, close, closeAll, lock, unlock and forced
\* close, once no dialog is open and every pending teardown timer has
\* fired, the page scroll lock is removed: the page is never left
\* scroll-locked with no dialog open.
C28_NoLockLeftBehind ==
    (topLayer = <<>> /\ NothingPending) => body.overflowY # "hidden"

\* C28 witness: a dialog was shown and closed, its teardown has run, and the
\* page scrolls again.
C28_Witness ==
    /\ topLayer = <<>> /\ NothingPending
    /\ last.op \in {"closeTimer", "handleClosedTimer"}
    /\ body = ScrollUnset

(***************************************************************************)
(* Claims about the construction of Modal (checked under                   *)
(* SpecModalConstruct)                                                     *)
(***************************************************************************)
\* instance m is bound to a <dialog> that has its id and is in the document
BoundToDialog(m) ==
    /\ modals[m].dialog # 0
    /\ elements[modals[m].dialog].tag = "dialog"
    /\ elements[modals[m].dialog].id = modals[m].id
    /\ elements[modals[m].dialog].attached

\* C25 as stated: after new Modal({id}) the instance is bound to a <dialog>
\* with that id attached to the document, whether the page had no element
\* with the id, a dialog or an element of another kind.
C25_BoundToAttachedDialog ==
    \A m \in 1..Len(modals) : BoundToDialog(m)

\* the dialog of the id is in the document and carries aria-modal
AlreadyModal ==
    /\ Modal_getElementById(elements, ModalId) # 0
    /\ elements[Modal_getElementById(elements, ModalId)].ariaModal

Heard(h, what) == {i \in 1..Len(h) : h[i][1] = what}

\* the element whose queued close event the step delivered
ClosedElement ==
    CHOOSE d \in 1..Len(elements) :
        elements'[d].closeEvents < elements[d].closeEvents

\* C26 as stated: constructing another Modal for an id whose dialog already
\* carries aria-modal changes nothing of the dialog (no second wrap, close
\* button or listener), so a later closing of the dialog, unlocked, dispatches
\* Modal:closed once and sets one timer for onClose.
C26_SecondConstructionIsNoOp ==
    [][/\ (last'.op = "new Modal" /\ AlreadyModal) => elements' = elements
       /\ (last'.op = "closeEvent" /\ modals # <<>>
             /\ elements[ClosedElement].dataLocked # "true") =>
              /\ Cardinality(Heard(heard', "Modal:closed")) = 1
              /\ Cardinality({m \in 1..Len(modals) :
                     modals'[m].timers > modals[m].timers}) = 1]_vars

(***************************************************************************)
(* Claims about the timers of AlertBanners (checked under SpecAlertBanners)*)
(***************************************************************************)
\* the pending auto-dismiss timers of the id whose banner has left the page
StaleDismissals(T, id) ==
    {j \in 1..Len(T) : T[j].kind = "dismiss" /\ T[j].id = id /\ ~T[j].attached}

\* the pending removals that hold a banner of the id
Removals(T, id) == {j \in 1..Len(T) : T[j].kind = "remove" /\ T[j].id = id}

\* C29 as stated: a banner stays deployed unless it is dismissed explicitly,
\* replaced or its own duration has passed: when the auto-dismiss timer that
\* was set for an earlier banner of the same id runs out, the banner that
\* has the id now is left as it is, and no removal is scheduled for it.
C29_StaleTimerSparesLaterBanner ==
    [][\A id \in DismissIds :
         Cardinality(StaleDismissals(timers', id))
                < Cardinality(StaleDismissals(timers, id)) =>
            /\ containers' = containers
            /\ Cardinality(Removals(timers', id))
                    = Cardinality(Removals(timers, id))]_vars

\* the pending removals whose banner has had AlertBanners:dismissed dispatched
ToldRemovals(T) == {j \in 1..Len(T) : T[j].kind = "remove" /\ T[j].dismissed}

\* C30 as stated: AlertBanners:dismissed (and so onDismiss) is dispatched at
\* most once on a banner: the removal that holds a banner on which it has
\* been dispatched does not dispatch it again when its timer runs out.
C30_DismissedAtMostOnce ==
    [][Cardinality(ToldRemovals(timers')) < Cardinality(ToldRemovals(timers)) =>
            \A i \in 1..Len(notices') : notices'[i][1] # "dismissed"]_vars

====
